---- MODULE Spec2Model ----
(***************************************************************************)
(* A model of the browser-automation JSON-RPC service:                     *)
(*   - app/browser_manager.py : BrowserManager, the session registry       *)
(*   - app/utils.py           : envelopes, get_params, api_method_handler  *)
(*   - main.py                : jsonrpc_handler, the request dispatcher    *)
(*   - app/routes.py          : the API methods                            *)
(*                                                                         *)
(* The service runs on one asyncio event loop.  A coroutine runs without   *)
(* interruption until it awaits the automation driver (Playwright); only   *)
(* there can another request run.  The model keeps, for every task, its    *)
(* stack of coroutine frames, and the variable cur names the task that     *)
(* holds the event loop.  One action is one stretch of code between two    *)
(* suspension points (or calls) of a coroutine.                            *)
(***************************************************************************)
EXTENDS Integers, Sequences, FiniteSets, TLC

(***************************************************************************)
(* Bounds of the model.                                                    *)
(***************************************************************************)
\* driver context objects ever created
MaxContexts == 2
\* driver page objects ever created
MaxPages == 3
\* playwright driver handles ever started
MaxLaunches == 2

VARIABLES
    mgr,      \* the BrowserManager instance (browser_manager.py:11-22)
    drv,      \* the automation driver's objects (Playwright side)
    tasks,    \* per task: the stack of coroutine frames and its bookkeeping
    cur,      \* the task holding the event loop, or NoTask
    rt        \* the module globals of routes.py (23-25) and main.py (17-18)

vars == <<mgr, drv, tasks, cur, rt>>

(***************************************************************************)
(* Python values.                                                          *)
(***************************************************************************)
\* Optional[str] identifiers are only ever tested for truthiness, where None
\* and the empty string agree, and the empty string is never stored as a key.
None == ""
\* Optional driver objects (Playwright, Browser, BrowserContext, Page) are
\* positive object numbers; NoObj stands for Python's None.
NoObj == 0

Truthy(s) == s # None

StartsWith(s, p) == Len(s) >= Len(p) /\ SubSeq(s, 1, Len(p)) = p

\* x or y
Or(x, y) == IF Truthy(x) THEN x ELSE y

(***************************************************************************)
(* Python dicts keep insertion order; next(iter(d)) is the oldest key.     *)
(* A dict is a sequence of [k, v] entries with distinct keys.              *)
(***************************************************************************)
Keys(d) == {d[i].k : i \in 1..Len(d)}

KeyList(d) == [i \in 1..Len(d) |-> d[i].k]

Has(d, k) == \E i \in 1..Len(d) : d[i].k = k

Get(d, k) == d[CHOOSE i \in 1..Len(d) : d[i].k = k].v

\* d[k] = v : an existing key keeps its position, a new key goes last
Put(d, k, v) ==
    IF Has(d, k)
    THEN [i \in 1..Len(d) |-> IF d[i].k = k THEN [k |-> k, v |-> v] ELSE d[i]]
    ELSE Append(d, [k |-> k, v |-> v])

\* d.pop(k)
Pop(d, k) == SelectSeq(d, LAMBDA e : e.k # k)

\* next(iter(d.keys()))
FirstKey(d) == d[1].k

\* next(iter(d.values()))
FirstValue(d) == d[1].v

(***************************************************************************)
(* The values a request carries (JSON) and the objects the routes module   *)
(* holds are tagged: [t |-> type, v |-> payload].  A dict's payload is a   *)
(* function from its keys; the payload of the other types is a string.     *)
(***************************************************************************)
JNull == [t |-> "null", v |-> ""]
JStr(s) == [t |-> "str", v |-> s]
JNum(s) == [t |-> "num", v |-> s]
\* a list; the requests of the model carry non-empty ones
JList == [t |-> "list", v |-> ""]
JDict(f) == [t |-> "dict", v |-> f]
EmptyDict == JDict(<<>>)

\* an instance of a class of the service
Instance(class) == [t |-> class, v |-> ""]

\* x is None
IsNone(x) == x.t = "null"

\* x == s, for a string s
IsStr(x, s) == x.t = "str" /\ x.v = s

\* bool(x)
IsTrue(x) ==
    CASE x.t = "null" -> FALSE
      [] x.t = "str" -> x.v # ""
      [] x.t = "num" -> x.v # "0"
      [] x.t = "dict" -> DOMAIN x.v # {}
      [] x.t = "list" -> TRUE
      [] OTHER -> TRUE

\* d.get(k) and d.get(k, default)
GetOr(d, k, default) == IF k \in DOMAIN d.v THEN d.v[k] ELSE default
DictGet(d, k) == GetOr(d, k, JNull)

\* s.replace(old, new) for one-character old, from the i-th character on
RECURSIVE replace_from(_, _, _, _)
replace_from(s, i, old, new) ==
    IF i > Len(s)
    THEN ""
    ELSE (IF SubSeq(s, i, i) = old THEN new ELSE SubSeq(s, i, i))
            \o replace_from(s, i + 1, old, new)

\* s.replace(old, new) for one-character old
replace(s, old, new) == replace_from(s, 1, old, new)

(***************************************************************************)
(* The automation driver.  Its objects are numbered in creation order.     *)
(*   playwrights[h]  : TRUE while the driver process h runs                *)
(*   browsers[b]     : [pw, connected]                                     *)
(*   contexts[c]     : [browser, closed]                                   *)
(*   pages[p]        : [context, closed]       (Page.context)              *)
(***************************************************************************)
is_connected(b) == drv.browsers[b].connected

\* the driver after browser b has gone (closed, crashed or its driver stopped)
BrowserGone(d, bs) ==
    LET cs == {c \in 1..Len(d.contexts) : d.contexts[c].browser \in bs}
    IN [d EXCEPT
          !.browsers = [b \in 1..Len(d.browsers) |->
                          IF b \in bs THEN [@[b] EXCEPT !.connected = FALSE] ELSE @[b]],
          !.contexts = [c \in 1..Len(d.contexts) |->
                          IF c \in cs THEN [@[c] EXCEPT !.closed = TRUE] ELSE @[c]],
          !.pages = [p \in 1..Len(d.pages) |->
                          IF @[p].context \in cs THEN [@[p] EXCEPT !.closed = TRUE] ELSE @[p]]]

\* the driver after context c is closed: its pages close with it
ContextGone(d, c) ==
    [d EXCEPT
       !.contexts[c].closed = TRUE,
       !.pages = [p \in 1..Len(d.pages) |->
                     IF @[p].context = c THEN [@[p] EXCEPT !.closed = TRUE] ELSE @[p]]]

(***************************************************************************)
(* Tasks and frames.                                                       *)
(***************************************************************************)
Tasks == {"t1", "t2"}
NoTask == ""

NoSig == [k |-> "none"]
RetSig(v) == [k |-> "ret", v |-> v]
ExcSig(e) == [k |-> "exc", e |-> e]

\* what a finished task leaves for its caller: the call (op), the state it
\* was made in (pre), the outcome of the API function it reached (out) and its
\* own outcome (result)
NoOp == [name |-> "", context_id |-> None, page_id |-> None]
NoPre == [mgr |-> <<>>, drv |-> <<>>, rt |-> <<>>]

IdleTask ==
    [st |-> "idle", stack |-> <<>>, sig |-> NoSig,
     op |-> NoOp, pre |-> NoPre, out |-> NoSig, result |-> NoSig]

Top(t) == Head(tasks[t].stack)

\* no operation is in progress
Quiescent == \A t \in Tasks : tasks[t].stack = <<>>

\* task t can take a step of its own code: it holds the event loop, or the
\* loop is free and the driver call it awaited has completed
Runnable(t) ==
    /\ tasks[t].stack # <<>>
    /\ \/ cur = t
       \/ cur = NoTask /\ tasks[t].sig.k # "none"

\* task t is at frame fn, label pc
At(t, fn, pc) ==
    /\ Runnable(t)
    /\ Top(t).fn = fn
    /\ Top(t).pc = pc

\* task t is suspended in the driver call awaited at label pc
Awaiting(t, pc) ==
    /\ cur = NoTask
    /\ tasks[t].stack # <<>>
    /\ tasks[t].sig.k = "none"
    /\ Top(t).pc = pc

\* the task with its top frame replaced by f
Goto(T, f) == [T EXCEPT !.stack = <<f>> \o Tail(@), !.sig = NoSig]

\* the task after its top frame, left as f, calls a coroutine with frame g
Call(T, f, g) == [T EXCEPT !.stack = <<g, f>> \o Tail(@), !.sig = NoSig]

\* the task after its top frame finishes with signal s
Finish(T, s) ==
    IF Len(T.stack) = 1
    THEN [T EXCEPT !.stack = <<>>, !.sig = NoSig, !.st = "done", !.result = s]
    ELSE [T EXCEPT !.stack = Tail(@), !.sig = s]

Return(T, v) == Finish(T, RetSig(v))
Raise(T, e) == Finish(T, ExcSig(e))

\* task t becomes T and keeps the event loop; when it has finished, its
\* caller takes the outcome before anything else runs
Run(t, T) ==
    /\ tasks' = [tasks EXCEPT ![t] = T]
    /\ cur' = t
    /\ UNCHANGED rt

\* task t becomes T and suspends in a driver call
Yield(t, T) ==
    /\ tasks' = [tasks EXCEPT ![t] = T]
    /\ cur' = NoTask
    /\ UNCHANGED rt

\* a driver call of task t completes with signal s
Complete(t, s) ==
    /\ tasks' = [tasks EXCEPT ![t].sig = s]
    /\ cur' = NoTask
    /\ UNCHANGED rt

\* a task starts running the coroutine with frame f
Begin(t, op, f) ==
    /\ cur = NoTask
    /\ tasks[t].st = "idle"
    /\ tasks' = [tasks EXCEPT ![t] =
                   [st |-> "active", stack |-> <<f>>, sig |-> NoSig, op |-> op,
                    pre |-> [mgr |-> mgr, drv |-> drv, rt |-> rt],
                    out |-> NoSig, result |-> NoSig]]
    /\ cur' = t
    /\ UNCHANGED rt

\* a task runs a method that never suspends, with outcome s
Atomic(t, op, s) ==
    /\ cur = NoTask
    /\ tasks[t].st = "idle"
    /\ tasks' = [tasks EXCEPT ![t] =
                   [st |-> "done", stack |-> <<>>, sig |-> NoSig, op |-> op,
                    pre |-> [mgr |-> mgr, drv |-> drv, rt |-> rt],
                    out |-> NoSig, result |-> s]]
    /\ cur' = t
    /\ UNCHANGED rt

\* exceptions
Exception(type, msg) == [type |-> type, msg |-> msg]
DriverError == Exception("Error", "driver")

(***************************************************************************)
(* BrowserManager.__init__                                                 *)
(***************************************************************************)
default_context_id_prefix == "default_ctx_"
default_page_id_prefix == "default_page_"

BrowserManager ==
    [playwright |-> NoObj,
     browser |-> NoObj,
     contexts |-> <<>>,
     pages |-> <<>>,
     active_context_id |-> None,
     active_page_id |-> None,
     context_counter |-> 0,
     page_counter |-> 0]

NoDriver == [playwrights |-> <<>>, browsers |-> <<>>, contexts |-> <<>>, pages |-> <<>>]

\* a global that is declared but not bound yet (main.py:17-18)
Unbound == [t |-> "unbound", v |-> ""]

\* the globals before startup: routes._browser_manager and
\* routes._config_loader are None, main.config_loader and main.browser_manager
\* are not bound, and the application has not run its startup ("new"; then
\* "serving", and "stopped" from its shutdown on)
NoRoutes ==
    [browser_manager |-> JNull, config_loader |-> JNull,
     main_config_loader |-> Unbound, main_browser_manager |-> Unbound,
     phase |-> "new"]

Init ==
    /\ mgr = BrowserManager
    /\ drv = NoDriver
    /\ tasks = [t \in Tasks |-> IdleTask]
    /\ cur = NoTask
    /\ rt = NoRoutes

\* the awaited driver call of task t raises
Refuse(t) ==
    /\ Complete(t, ExcSig(DriverError))
    /\ UNCHANGED drv

(***************************************************************************)
(* The driver calls a coroutine awaits.  A call on an object that is gone  *)
(* raises.  The driver has MaxLaunches handles: starting one more raises,  *)
(* and the launch of the last one may fail.  A call that would create a    *)
(* context or a page beyond MaxContexts or MaxPages does not complete.     *)
(***************************************************************************)
\* async_playwright().start()
playwright_start(t) ==
    /\ Awaiting(t, "await_playwright_start")
    /\ IF Len(drv.playwrights) < MaxLaunches
       THEN /\ drv' = [drv EXCEPT !.playwrights = Append(@, TRUE)]
            /\ Complete(t, RetSig(Len(drv.playwrights) + 1))
       ELSE Refuse(t)
    /\ UNCHANGED mgr

\* playwright.<browser_type>.launch(**launch_options)
launch(t) ==
    /\ Awaiting(t, "await_launch")
    /\ \/ /\ drv.playwrights[Top(t).playwright]
          /\ drv' = [drv EXCEPT !.browsers =
                        Append(@, [pw |-> Top(t).playwright, connected |-> TRUE])]
          /\ Complete(t, RetSig(Len(drv.browsers) + 1))
       \/ /\ ~drv.playwrights[Top(t).playwright] \/ Len(drv.playwrights) >= MaxLaunches
          /\ Refuse(t)
    /\ UNCHANGED mgr

\* browser.new_context(**options)
browser_new_context(t) ==
    /\ Awaiting(t, "await_new_context")
    /\ IF is_connected(Top(t).browser)
       THEN /\ Len(drv.contexts) < MaxContexts
            /\ drv' = [drv EXCEPT !.contexts =
                          Append(@, [browser |-> Top(t).browser, closed |-> FALSE])]
            /\ Complete(t, RetSig(Len(drv.contexts) + 1))
       ELSE Refuse(t)
    /\ UNCHANGED mgr

\* context.new_page()
context_new_page(t) ==
    /\ Awaiting(t, "await_new_page")
    /\ IF ~drv.contexts[Top(t).context].closed
       THEN /\ Len(drv.pages) < MaxPages
            /\ drv' = [drv EXCEPT !.pages =
                          Append(@, [context |-> Top(t).context, closed |-> FALSE])]
            /\ Complete(t, RetSig(Len(drv.pages) + 1))
       ELSE Refuse(t)
    /\ UNCHANGED mgr

\* page.close()
page_close(t) ==
    /\ Awaiting(t, "await_page_close")
    /\ \/ /\ drv' = [drv EXCEPT !.pages[Top(t).page].closed = TRUE]
          /\ Complete(t, RetSig(None))
       \/ /\ drv.pages[Top(t).page].closed
          /\ Refuse(t)
    /\ UNCHANGED mgr

\* context.close()
context_close(t) ==
    /\ Awaiting(t, "await_context_close")
    /\ \/ /\ drv' = ContextGone(drv, Top(t).context)
          /\ Complete(t, RetSig(None))
       \/ /\ drv.contexts[Top(t).context].closed
          /\ Refuse(t)
    /\ UNCHANGED mgr

\* browser.close()
browser_close(t) ==
    /\ Awaiting(t, "await_browser_close")
    /\ \/ /\ drv' = BrowserGone(drv, {Top(t).browser})
          /\ Complete(t, RetSig(None))
       \/ /\ ~is_connected(Top(t).browser)
          /\ Refuse(t)
    /\ UNCHANGED mgr

\* playwright.stop(): the driver process ends, and its browsers with it
playwright_stop(t) ==
    /\ Awaiting(t, "await_playwright_stop")
    /\ \/ /\ LET h == Top(t).playwright
             IN drv' = BrowserGone([drv EXCEPT !.playwrights[h] = FALSE],
                                   {b \in 1..Len(drv.browsers) : drv.browsers[b].pw = h})
          /\ Complete(t, RetSig(None))
       \/ /\ ~drv.playwrights[Top(t).playwright]
          /\ Refuse(t)
    /\ UNCHANGED mgr

\* the browser crashes or is killed between two operations:
\* Browser.is_connected() turns false
BrowserDisconnect ==
    /\ cur = NoTask
    /\ \A t \in Tasks : tasks[t].st = "idle"
    /\ \E b \in 1..Len(drv.browsers) :
          /\ is_connected(b)
          /\ drv' = BrowserGone(drv, {b})
    /\ UNCHANGED <<mgr, tasks, cur, rt>>

(***************************************************************************)
(* Frames of the BrowserManager coroutines.                                *)
(***************************************************************************)
Frame_start_browser ==
    [fn |-> "start_browser", pc |-> "start", playwright |-> NoObj, e |-> NoSig]

Frame_create_context(context_id) ==
    [fn |-> "create_context", pc |-> "start", context_id |-> context_id,
     browser |-> NoObj, c_id |-> None]

Frame_create_page(context_id, page_id) ==
    [fn |-> "create_page", pc |-> "start", context_id |-> context_id,
     page_id |-> page_id, context |-> NoObj]

Frame_close_page(page_id) ==
    [fn |-> "close_page", pc |-> "start", page_id |-> page_id, page |-> NoObj]

Frame_close_context(context_id) ==
    [fn |-> "close_context", pc |-> "start", context_id |-> context_id,
     context |-> NoObj, pages_to_close |-> <<>>]

Frame_close_browser ==
    [fn |-> "close_browser", pc |-> "start", browser |-> NoObj, playwright |-> NoObj]

\* the frames whose code handles an exception raised at their label: the
\* try blocks of start_browser (browser_manager.py:40-57), of the API methods
\* and _get_active_page_or_raise (routes.py), of the wrapper (utils.py:56-71)
\* and of startup_event (main.py:29-43)
Catches(f) ==
    \/ /\ f.fn = "start_browser"
       /\ f.pc \in {"await_launch", "in_create_context", "await_playwright_stop"}
    \/ f.pc \in {"await_page_call", "in_create_page_or_raise",
                 "in_create_context_api", "in_close_context_api"}
    \/ f.fn \in {"wrapper_function", "startup_event"}

\* an exception no try block of the frame covers leaves the frame
Propagate(t) ==
    /\ Runnable(t)
    /\ tasks[t].sig.k = "exc"
    /\ ~Catches(Top(t))
    /\ Run(t, Raise(tasks[t], tasks[t].sig.e))
    /\ UNCHANGED <<mgr, drv>>

(***************************************************************************)
(* BrowserManager.start_browser                                            *)
(***************************************************************************)
\* start_browser without the test of line 25: it launches even when the
\* browser is running (the variant C5's formula must tell from the code)
start_browser_start_relaunch(t) ==
    /\ At(t, "start_browser", "start")
    /\ Yield(t, Goto(tasks[t], [Top(t) EXCEPT !.pc = "await_playwright_start"]))
    /\ UNCHANGED <<mgr, drv>>

\* lines 25-29
start_browser_start(t) ==
    /\ At(t, "start_browser", "start")
    /\ IF mgr.browser # NoObj /\ is_connected(mgr.browser)
       THEN Run(t, Return(tasks[t], None))
       ELSE Yield(t, Goto(tasks[t], [Top(t) EXCEPT !.pc = "await_playwright_start"]))
    /\ UNCHANGED <<mgr, drv>>

\* lines 29-49: the driver handle is kept, the browser is launched
start_browser_launch(t) ==
    /\ At(t, "start_browser", "await_playwright_start")
    /\ tasks[t].sig.k = "ret"
    /\ mgr' = [mgr EXCEPT !.playwright = tasks[t].sig.v]
    /\ Yield(t, Goto(tasks[t], [Top(t) EXCEPT !.pc = "await_launch",
                                              !.playwright = tasks[t].sig.v]))
    /\ UNCHANGED drv

\* lines 42-52: the browser is kept, the initial context is created
start_browser_launched(t) ==
    /\ At(t, "start_browser", "await_launch")
    /\ tasks[t].sig.k = "ret"
    /\ mgr' = [mgr EXCEPT !.browser = tasks[t].sig.v]
    /\ Run(t, Call(tasks[t], [Top(t) EXCEPT !.pc = "in_create_context"],
                   Frame_create_context("initial_default_context")))
    /\ UNCHANGED drv

\* line 52 returned
start_browser_return(t) ==
    /\ At(t, "start_browser", "in_create_context")
    /\ tasks[t].sig.k = "ret"
    /\ Run(t, Return(tasks[t], None))
    /\ UNCHANGED <<mgr, drv>>

\* lines 53-56: except Exception: stop the driver if there is one
start_browser_except(t) ==
    /\ \/ At(t, "start_browser", "await_launch")
       \/ At(t, "start_browser", "in_create_context")
    /\ tasks[t].sig.k = "exc"
    /\ IF mgr.playwright # NoObj
       THEN Yield(t, Goto(tasks[t], [Top(t) EXCEPT !.pc = "await_playwright_stop",
                                                   !.playwright = mgr.playwright,
                                                   !.e = tasks[t].sig]))
       ELSE Run(t, Raise(tasks[t], tasks[t].sig.e))
    /\ UNCHANGED <<mgr, drv>>

\* line 57: raise (or the exception of playwright.stop() itself)
start_browser_reraise(t) ==
    /\ At(t, "start_browser", "await_playwright_stop")
    /\ IF tasks[t].sig.k = "ret"
       THEN Run(t, Raise(tasks[t], Top(t).e.e))
       ELSE Run(t, Raise(tasks[t], tasks[t].sig.e))
    /\ UNCHANGED <<mgr, drv>>

(***************************************************************************)
(* BrowserManager.create_context                                           *)
(***************************************************************************)
\* lines 60-74
create_context_start(t) ==
    /\ At(t, "create_context", "start")
    /\ IF mgr.browser = NoObj \/ ~is_connected(mgr.browser)
       THEN Run(t, Call(tasks[t], [Top(t) EXCEPT !.pc = "in_start_browser"],
                        Frame_start_browser))
       ELSE Yield(t, Goto(tasks[t], [Top(t) EXCEPT !.pc = "await_new_context",
                                                   !.browser = mgr.browser]))
    /\ UNCHANGED <<mgr, drv>>

\* lines 62-74: start_browser returned
create_context_started(t) ==
    /\ At(t, "create_context", "in_start_browser")
    /\ tasks[t].sig.k = "ret"
    /\ IF mgr.browser = NoObj
       THEN Run(t, Raise(tasks[t], Exception("ConnectionError",
                            "Browser is not available after attempting to start.")))
       ELSE Yield(t, Goto(tasks[t], [Top(t) EXCEPT !.pc = "await_new_context",
                                                   !.browser = mgr.browser]))
    /\ UNCHANGED <<mgr, drv>>

\* line 76
c_id_of(m, context_id) ==
    Or(context_id, default_context_id_prefix \o ToString(m.context_counter))

\* lines 75-79: the new context is counted, named, stored and maybe activated
create_context_register(m, context_id, new_context) ==
    LET m1 == [m EXCEPT !.context_counter = @ + 1]
        c_id == c_id_of(m1, context_id)
        m2 == [m1 EXCEPT !.contexts = Put(@, c_id, new_context)]
    IN IF ~Truthy(m2.active_context_id) \/ context_id = "initial_default_context"
       THEN [m2 EXCEPT !.active_context_id = c_id]
       ELSE m2

\* lines 74-82
create_context_created(t) ==
    /\ At(t, "create_context", "await_new_context")
    /\ tasks[t].sig.k = "ret"
    /\ mgr' = create_context_register(mgr, Top(t).context_id, tasks[t].sig.v)
    /\ LET c_id == c_id_of(mgr', Top(t).context_id)
       IN Run(t, Call(tasks[t], [Top(t) EXCEPT !.pc = "in_create_page", !.c_id = c_id],
                      Frame_create_page(c_id, "initial_page_for_" \o c_id)))
    /\ UNCHANGED drv

\* lines 82-83
create_context_return(t) ==
    /\ At(t, "create_context", "in_create_page")
    /\ tasks[t].sig.k = "ret"
    /\ Run(t, Return(tasks[t], Top(t).c_id))
    /\ UNCHANGED <<mgr, drv>>

(***************************************************************************)
(* BrowserManager.create_page                                              *)
(***************************************************************************)
\* lines 86-96
create_page_start(t) ==
    /\ At(t, "create_page", "start")
    /\ LET target_context_id == Or(Top(t).context_id, mgr.active_context_id)
       IN IF ~Truthy(target_context_id) \/ ~Has(mgr.contexts, target_context_id)
          THEN IF ~Truthy(mgr.active_context_id)
               THEN Run(t, Call(tasks[t], [Top(t) EXCEPT !.pc = "in_create_context"],
                                Frame_create_context(None)))
               ELSE Run(t, Raise(tasks[t], Exception("ValueError", "Context ID not found.")))
          ELSE Yield(t, Goto(tasks[t],
                    [Top(t) EXCEPT !.pc = "await_new_page",
                                   !.context = Get(mgr.contexts, target_context_id)]))
    /\ UNCHANGED <<mgr, drv>>

\* lines 92-96: create_context returned the target
create_page_context_created(t) ==
    /\ At(t, "create_page", "in_create_context")
    /\ tasks[t].sig.k = "ret"
    /\ LET target_context_id == tasks[t].sig.v
       IN IF ~Has(mgr.contexts, target_context_id)
          THEN Run(t, Raise(tasks[t], Exception("KeyError", target_context_id)))
          ELSE Yield(t, Goto(tasks[t],
                    [Top(t) EXCEPT !.pc = "await_new_page",
                                   !.context = Get(mgr.contexts, target_context_id)]))
    /\ UNCHANGED <<mgr, drv>>

\* line 98
p_id_of(m, page_id) ==
    Or(page_id, default_page_id_prefix \o ToString(m.page_counter))

\* lines 97-101: the new page is counted, named, stored and maybe activated
create_page_register(m, page_id, new_page) ==
    LET m1 == [m EXCEPT !.page_counter = @ + 1]
        p_id == p_id_of(m1, page_id)
        m2 == [m1 EXCEPT !.pages = Put(@, p_id, new_page)]
    IN IF ~Truthy(m2.active_page_id)
          \/ (Truthy(page_id) /\ StartsWith(page_id, "initial_page_for_"))
       THEN [m2 EXCEPT !.active_page_id = p_id]
       ELSE m2

\* lines 96-103
create_page_created(t) ==
    /\ At(t, "create_page", "await_new_page")
    /\ tasks[t].sig.k = "ret"
    /\ mgr' = create_page_register(mgr, Top(t).page_id, tasks[t].sig.v)
    /\ Run(t, Return(tasks[t], p_id_of(mgr', Top(t).page_id)))
    /\ UNCHANGED drv

(***************************************************************************)
(* The methods of BrowserManager that never suspend.                       *)
(***************************************************************************)
\* the BrowserContext that owns page object p (Page.context)
context_of(p) == drv.pages[p].context

\* lines 105-112
get_active_page(m) ==
    IF Truthy(m.active_page_id) /\ Has(m.pages, m.active_page_id)
    THEN Get(m.pages, m.active_page_id)
    ELSE IF m.pages # <<>>
         THEN FirstValue(m.pages)
         ELSE NoObj

\* lines 114-115
get_page_by_id(m, page_id) ==
    IF Has(m.pages, page_id) THEN Get(m.pages, page_id) ELSE NoObj

\* lines 117-121
get_active_context(m) ==
    IF Truthy(m.active_context_id) /\ Has(m.contexts, m.active_context_id)
    THEN Get(m.contexts, m.active_context_id)
    ELSE NoObj

\* lines 123-124
get_context_by_id(m, context_id) ==
    IF Has(m.contexts, context_id) THEN Get(m.contexts, context_id) ELSE NoObj

\* a scan that keeps the active page when the context owns no tracked page,
\* as if line 134 were missing (the variant C23's formula must tell from the
\* code)
first_page_of_else_active(m, context) ==
    LET owned == SelectSeq(m.pages, LAMBDA e : context_of(e.v) = context)
    IN IF owned # <<>> THEN owned[1].k ELSE m.active_page_id

\* lines 134-139: the first tracked page whose context is the given one
first_page_of(m, context) ==
    LET owned == SelectSeq(m.pages, LAMBDA e : context_of(e.v) = context)
    IN IF owned # <<>> THEN owned[1].k ELSE None

\* a set_active_context that resets the active page before it looks the
\* context up (the variant C27's formula must tell from the code)
set_active_context_reset_first(m, context_id) ==
    IF Has(m.contexts, context_id)
    THEN [m |-> [m EXCEPT !.active_context_id = context_id,
                          !.active_page_id = first_page_of(m, Get(m.contexts, context_id))],
          r |-> TRUE]
    ELSE [m |-> [m EXCEPT !.active_page_id = None], r |-> FALSE]

\* lines 126-147: the manager after set_active_context, and what it returns
set_active_context(m, context_id) ==
    IF Has(m.contexts, context_id)
    THEN [m |-> [m EXCEPT !.active_context_id = context_id,
                          !.active_page_id = first_page_of(m, Get(m.contexts, context_id))],
          r |-> TRUE]
    ELSE [m |-> m, r |-> FALSE]

\* lines 153-159: the first tracked context that is the page's context
context_id_of(m, page_context) ==
    LET owners == SelectSeq(m.contexts, LAMBDA e : e.v = page_context)
    IN IF owners # <<>> THEN owners[1].k ELSE None

\* lines 149-163: the manager after set_active_page, and what it returns
set_active_page(m, page_id) ==
    IF Has(m.pages, page_id)
    THEN LET ctx_id == context_id_of(m, context_of(Get(m.pages, page_id)))
         IN [m |-> [m EXCEPT !.active_page_id = page_id,
                             !.active_context_id =
                                 IF Truthy(ctx_id) /\ @ # ctx_id THEN ctx_id ELSE @],
             r |-> TRUE]
    ELSE [m |-> m, r |-> FALSE]

(***************************************************************************)
(* BrowserManager.close_page                                               *)
(***************************************************************************)
\* lines 166-168, 177-178
close_page_start(t) ==
    /\ At(t, "close_page", "start")
    /\ IF Has(mgr.pages, Top(t).page_id)
       THEN /\ mgr' = [mgr EXCEPT !.pages = Pop(@, Top(t).page_id)]
            /\ Yield(t, Goto(tasks[t], [Top(t) EXCEPT !.pc = "await_page_close",
                                           !.page = Get(mgr.pages, Top(t).page_id)]))
       ELSE /\ Run(t, Return(tasks[t], FALSE))
            /\ UNCHANGED mgr
    /\ UNCHANGED drv

\* a close_page that unsets the active page and selects no other, as if
\* lines 173-175 were missing (the variant C25's formula must tell from the
\* code)
close_page_unselect(m, page_id) ==
    IF m.active_page_id = page_id THEN [m EXCEPT !.active_page_id = None] ELSE m

\* lines 170-175: another page becomes active when the active one was closed
close_page_reselect(m, page_id) ==
    IF m.active_page_id = page_id
    THEN [m EXCEPT !.active_page_id = IF m.pages # <<>> THEN FirstKey(m.pages) ELSE None]
    ELSE m

\* lines 168-176
close_page_closed(t) ==
    /\ At(t, "close_page", "await_page_close")
    /\ tasks[t].sig.k = "ret"
    /\ mgr' = close_page_reselect(mgr, Top(t).page_id)
    /\ Run(t, Return(tasks[t], TRUE))
    /\ UNCHANGED drv

(***************************************************************************)
(* BrowserManager.close_context                                            *)
(***************************************************************************)
\* close_context without the cascade of line 184: no page is closed first
\* (the variant C4's formula must tell from the code)
pages_to_close_of_none(m, context) == <<>>

\* line 184
pages_to_close_of(m, context) ==
    KeyList(SelectSeq(m.pages, LAMBDA e : context_of(e.v) = context))

\* lines 181-184, 198-199
close_context_start(t) ==
    /\ At(t, "close_context", "start")
    /\ IF Has(mgr.contexts, Top(t).context_id)
       THEN LET context == Get(mgr.contexts, Top(t).context_id)
            IN /\ mgr' = [mgr EXCEPT !.contexts = Pop(@, Top(t).context_id)]
               /\ Run(t, Goto(tasks[t],
                      [Top(t) EXCEPT !.pc = "close_pages",
                                     !.context = context,
                                     !.pages_to_close = pages_to_close_of(mgr, context)]))
       ELSE /\ Run(t, Return(tasks[t], FALSE))
            /\ UNCHANGED mgr
    /\ UNCHANGED drv

\* lines 185-187: close the pages one by one, then the context
close_context_close_pages(t) ==
    /\ At(t, "close_context", "close_pages")
    /\ tasks[t].sig.k # "exc"
    /\ IF Top(t).pages_to_close # <<>>
       THEN Run(t, Call(tasks[t], [Top(t) EXCEPT !.pages_to_close = Tail(@)],
                        Frame_close_page(Head(Top(t).pages_to_close))))
       ELSE Yield(t, Goto(tasks[t], [Top(t) EXCEPT !.pc = "await_context_close"]))
    /\ UNCHANGED <<mgr, drv>>

\* lines 189-196: another context becomes active when the active one was closed
close_context_reselect(m, context_id) ==
    IF m.active_context_id = context_id
    THEN IF m.contexts # <<>>
         THEN set_active_context([m EXCEPT !.active_context_id = FirstKey(m.contexts)],
                                 FirstKey(m.contexts)).m
         ELSE [m EXCEPT !.active_context_id = None]
    ELSE m

\* lines 187-197
close_context_closed(t) ==
    /\ At(t, "close_context", "await_context_close")
    /\ tasks[t].sig.k = "ret"
    /\ mgr' = close_context_reselect(mgr, Top(t).context_id)
    /\ Run(t, Return(tasks[t], TRUE))
    /\ UNCHANGED drv

(***************************************************************************)
(* BrowserManager.close_browser                                            *)
(***************************************************************************)
\* a close_browser that also starts the counters anew (the variant C18's
\* formula must tell from the code)
clear_and_reset(m) ==
    [m EXCEPT !.contexts = <<>>, !.pages = <<>>,
              !.active_context_id = None, !.active_page_id = None,
              !.context_counter = 0, !.page_counter = 0]

\* lines 210-213
clear(m) ==
    [m EXCEPT !.contexts = <<>>, !.pages = <<>>,
              !.active_context_id = None, !.active_page_id = None]

\* lines 206-213, from a manager m: stop the driver if there is one, else clear
close_browser_stop(t, m) ==
    IF m.playwright # NoObj
    THEN /\ mgr' = m
         /\ Yield(t, Goto(tasks[t], [Top(t) EXCEPT !.pc = "await_playwright_stop",
                                                   !.playwright = m.playwright]))
    ELSE /\ mgr' = clear(m)
         /\ Run(t, Return(tasks[t], None))

\* lines 202-203, 206
close_browser_start(t) ==
    /\ At(t, "close_browser", "start")
    /\ IF mgr.browser # NoObj /\ is_connected(mgr.browser)
       THEN /\ Yield(t, Goto(tasks[t], [Top(t) EXCEPT !.pc = "await_browser_close",
                                                      !.browser = mgr.browser]))
            /\ UNCHANGED mgr
       ELSE close_browser_stop(t, mgr)
    /\ UNCHANGED drv

\* lines 203-207
close_browser_closed(t) ==
    /\ At(t, "close_browser", "await_browser_close")
    /\ tasks[t].sig.k = "ret"
    /\ close_browser_stop(t, [mgr EXCEPT !.browser = NoObj])
    /\ UNCHANGED drv

\* lines 207-213
close_browser_stopped(t) ==
    /\ At(t, "close_browser", "await_playwright_stop")
    /\ tasks[t].sig.k = "ret"
    /\ mgr' = clear([mgr EXCEPT !.playwright = NoObj])
    /\ Run(t, Return(tasks[t], None))
    /\ UNCHANGED drv

(***************************************************************************)
(* The registry's public operations, called by a client of the manager.    *)
(***************************************************************************)
Op(name, context_id, page_id) ==
    [name |-> name, context_id |-> context_id, page_id |-> page_id]

\* identifiers a caller may pass: the tracked ones and one of its own
ContextIdArgs == Keys(mgr.contexts) \cup {"ctx_a"}
PageIdArgs == Keys(mgr.pages) \cup {"page_a"}

StartBrowser(t) ==
    /\ Begin(t, Op("start_browser", None, None), Frame_start_browser)
    /\ UNCHANGED <<mgr, drv>>

CreateContext(t) ==
    /\ Begin(t, Op("create_context", None, None), Frame_create_context(None))
    /\ UNCHANGED <<mgr, drv>>

CreatePage(t) ==
    /\ \E context_id \in {None} \cup ContextIdArgs :
          Begin(t, Op("create_page", context_id, None), Frame_create_page(context_id, None))
    /\ UNCHANGED <<mgr, drv>>

SetActiveContext(t) ==
    /\ \E context_id \in ContextIdArgs :
          LET out == set_active_context(mgr, context_id)
          IN /\ Atomic(t, Op("set_active_context", context_id, None), RetSig(out.r))
             /\ mgr' = out.m
    /\ UNCHANGED drv

SetActivePage(t) ==
    /\ \E page_id \in PageIdArgs :
          LET out == set_active_page(mgr, page_id)
          IN /\ Atomic(t, Op("set_active_page", None, page_id), RetSig(out.r))
             /\ mgr' = out.m
    /\ UNCHANGED drv

ClosePage(t) ==
    /\ \E page_id \in PageIdArgs :
          Begin(t, Op("close_page", None, page_id), Frame_close_page(page_id))
    /\ UNCHANGED <<mgr, drv>>

CloseContext(t) ==
    /\ \E context_id \in ContextIdArgs :
          Begin(t, Op("close_context", context_id, None), Frame_close_context(context_id))
    /\ UNCHANGED <<mgr, drv>>

CloseBrowser(t) ==
    /\ Begin(t, Op("close_browser", None, None), Frame_close_browser)
    /\ UNCHANGED <<mgr, drv>>

\* the caller takes the outcome of its finished call
Collect(t) ==
    /\ tasks[t].st = "done"
    /\ tasks' = [tasks EXCEPT ![t] = IdleTask]
    /\ cur' = NoTask
    /\ UNCHANGED <<mgr, drv, rt>>

\* one stretch of a BrowserManager coroutine
ManagerStep(t) ==
    \/ start_browser_start(t)
    \/ start_browser_launch(t)
    \/ start_browser_launched(t)
    \/ start_browser_return(t)
    \/ start_browser_except(t)
    \/ start_browser_reraise(t)
    \/ create_context_start(t)
    \/ create_context_started(t)
    \/ create_context_created(t)
    \/ create_context_return(t)
    \/ create_page_start(t)
    \/ create_page_context_created(t)
    \/ create_page_created(t)
    \/ close_page_start(t)
    \/ close_page_closed(t)
    \/ close_context_start(t)
    \/ close_context_close_pages(t)
    \/ close_context_closed(t)
    \/ close_browser_start(t)
    \/ close_browser_closed(t)
    \/ close_browser_stopped(t)
    \/ Propagate(t)

\* one driver call completes
DriverStep(t) ==
    \/ playwright_start(t)
    \/ launch(t)
    \/ browser_new_context(t)
    \/ context_new_page(t)
    \/ page_close(t)
    \/ context_close(t)
    \/ browser_close(t)
    \/ playwright_stop(t)

(***************************************************************************)
(* Spec: the registry driven by one caller, one operation at a time.       *)
(***************************************************************************)
Caller == "t1"

Next ==
    \/ StartBrowser(Caller)
    \/ CreateContext(Caller)
    \/ CreatePage(Caller)
    \/ SetActiveContext(Caller)
    \/ SetActivePage(Caller)
    \/ ClosePage(Caller)
    \/ CloseContext(Caller)
    \/ CloseBrowser(Caller)
    \/ ManagerStep(Caller)
    \/ DriverStep(Caller)
    \/ Collect(Caller)
    \/ BrowserDisconnect

Spec == Init /\ [][Next]_vars

(***************************************************************************)
(* Properties of the registry under Spec.  A finished call of the caller   *)
(* is visible in its task record: the call (op), the state it was made in  *)
(* (pre) and its outcome (result).                                         *)
(***************************************************************************)
call == tasks[Caller]

Done(name) == call.st = "done" /\ call.op.name = name

Returned(name) == Done(name) /\ call.result.k = "ret"

Values(d) == {d[i].v : i \in 1..Len(d)}

\* the browser of manager m is running at driver d
Running(m, d) == m.browser # NoObj /\ d.browsers[m.browser].connected

\* the tracked pages of m that context object c owns at driver d
PagesOwnedBy(m, d, c) == {p \in Values(m.pages) : d.pages[p].context = c}

\* C1: whenever no registry operation is in progress, a set active_page_id
\* names a page whose owning context is the one active_context_id names.
C1_ActivePageInActiveContext ==
    Quiescent =>
       (Truthy(mgr.active_page_id) /\ Has(mgr.pages, mgr.active_page_id) =>
           /\ Has(mgr.contexts, mgr.active_context_id)
           /\ context_of(Get(mgr.pages, mgr.active_page_id))
                 = Get(mgr.contexts, mgr.active_context_id))

\* C2: after a successful SetActiveContext(C), GetActivePage() returns no page
\* or a page that C owns, never a page of another context.
C2_ActivePageAfterSetActiveContext ==
    Returned("set_active_context") /\ call.result.v = TRUE =>
       \/ get_active_page(mgr) = NoObj
       \/ context_of(get_active_page(mgr)) = Get(mgr.contexts, call.op.context_id)

\* C3: CreatePage() with no context argument, called with zero tracked
\* contexts, succeeds (unless the driver itself fails), adds exactly one
\* context and exactly one page, and on return that context is the active
\* context and the returned page is the active page.
C3_CreatePageSelfHeals ==
    Done("create_page") /\ call.op.context_id = None /\ call.pre.mgr.contexts = <<>> =>
       \/ call.result = ExcSig(DriverError)
       \/ /\ call.result.k = "ret"
          /\ Len(mgr.contexts) = 1
          /\ Len(mgr.pages) = Len(call.pre.mgr.pages) + 1
          /\ mgr.active_context_id = FirstKey(mgr.contexts)
          /\ mgr.active_page_id = call.result.v
          /\ Has(mgr.pages, call.result.v)

\* the context object that a finished CloseContext(C) was called on
ClosedContext == Get(call.pre.mgr.contexts, call.op.context_id)

\* CloseContext(C) has completed on a context that was tracked and open
CloseContextCompleted ==
    /\ Returned("close_context")
    /\ call.result.v = TRUE
    /\ Has(call.pre.mgr.contexts, call.op.context_id)
    /\ ~call.pre.drv.contexts[ClosedContext].closed

\* C4: after CloseContext(C) completes on a live context C, every tracked
\* page C owned is closed at the driver, and neither those pages nor C are
\* returned by get_page_by_id, get_context_by_id, get_active_page or
\* get_active_context.
C4_CloseContextCascades ==
    CloseContextCompleted =>
       /\ \A p \in PagesOwnedBy(call.pre.mgr, call.pre.drv, ClosedContext) :
             /\ drv.pages[p].closed
             /\ \A page_id \in Keys(call.pre.mgr.pages) \cup PageIdArgs :
                   get_page_by_id(mgr, page_id) # p
             /\ get_active_page(mgr) # p
       /\ drv.contexts[ClosedContext].closed
       /\ \A context_id \in Keys(call.pre.mgr.contexts) \cup ContextIdArgs :
             get_context_by_id(mgr, context_id) # ClosedContext
       /\ get_active_context(mgr) # ClosedContext

\* CloseContext completed on a live context that owned two tracked pages
C4_Witness ==
    /\ CloseContextCompleted
    /\ Cardinality(PagesOwnedBy(call.pre.mgr, call.pre.drv, ClosedContext)) = 2
    /\ Len(mgr.contexts) = 1

\* C5: StartBrowser called while the browser is running launches nothing and
\* leaves the browser handle, the context and page maps, both active pointers
\* and both counters as they were.
C5_StartBrowserIdempotent ==
    Done("start_browser") /\ Running(call.pre.mgr, call.pre.drv) =>
       /\ call.result = RetSig(None)
       /\ mgr = call.pre.mgr
       /\ drv = call.pre.drv

\* StartBrowser returned in a state where the browser was running with a
\* context and a page tracked
C5_Witness ==
    /\ Returned("start_browser")
    /\ Running(call.pre.mgr, call.pre.drv)
    /\ call.pre.mgr.contexts # <<>>
    /\ call.pre.mgr.pages # <<>>

(***************************************************************************)
(* utils.py: error codes, envelopes, RPCException, get_params and the      *)
(* wrapper that api_method_handler puts around every API method.           *)
(***************************************************************************)
JSON_RPC_PARSE_ERROR == -32700
JSON_RPC_INVALID_REQUEST == -32600
JSON_RPC_METHOD_NOT_FOUND == -32601
JSON_RPC_INVALID_PARAMS == -32602
JSON_RPC_INTERNAL_ERROR == -32603
BROWSER_OPERATION_ERROR == -32000
PAGE_NOT_AVAILABLE_ERROR == -32001
ELEMENT_NOT_FOUND_ERROR == -32002

\* lines 22-26
create_jsonrpc_error(id, code, message, data) ==
    [jsonrpc |-> "2.0",
     error |-> IF ~IsNone(data)
               THEN [code |-> code, message |-> message, data |-> data]
               ELSE [code |-> code, message |-> message],
     id |-> id]

\* lines 28-29
create_jsonrpc_success(id, result) ==
    [jsonrpc |-> "2.0", result |-> result, id |-> id]

\* lines 31-37
RPCException(code, message, id, data) ==
    [type |-> "RPCException", msg |-> message, code |-> code, id |-> id, data |-> data]

\* lines 39-40
to_json_response(e) == create_jsonrpc_error(e.id, e.code, e.msg, e.data)

\* lines 42-50: the params of the request, or the RPCException raised
get_params(request_data) ==
    LET params == DictGet(request_data, "params")
    IN IF IsNone(params)
       THEN RetSig(EmptyDict)
       ELSE IF params.t \notin {"dict", "list"}
            THEN ExcSig(RPCException(JSON_RPC_INVALID_PARAMS,
                                     "Invalid params: Must be object or array.",
                                     DictGet(request_data, "id"), JNull))
            ELSE RetSig(params)

\* line 65 without its test: the id of the exception is used even when it
\* has none (the variant C9's formula must tell from the code)
current_rpc_id_of_exception(rpc_id, e) == e.id

\* line 65
current_rpc_id(rpc_id, e) == IF IsNone(e.id) THEN rpc_id ELSE e.id

\* the wrapper without the except block of lines 62-67: an RPCException is
\* answered like any other exception (the variant C10's formula must tell
\* from the code)
wrapper_function_returns_internal(outcome, rpc_id) ==
    IF outcome.k = "ret"
    THEN create_jsonrpc_success(rpc_id, outcome.v)
    ELSE create_jsonrpc_error(rpc_id, JSON_RPC_INTERNAL_ERROR,
                              "Internal server error: " \o outcome.e.msg, JNull)

\* lines 56-71: the envelope the wrapper returns for the outcome of the method
wrapper_function_returns(outcome, rpc_id) ==
    IF outcome.k = "ret"
    THEN create_jsonrpc_success(rpc_id, outcome.v)
    ELSE IF outcome.e.type = "RPCException"
         THEN create_jsonrpc_error(current_rpc_id(rpc_id, outcome.e),
                                   outcome.e.code, outcome.e.msg, outcome.e.data)
         ELSE create_jsonrpc_error(rpc_id, JSON_RPC_INTERNAL_ERROR,
                                   "Internal server error: " \o outcome.e.msg, JNull)

(***************************************************************************)
(* routes.py: the names of the module.  getattr(routes, name) finds every  *)
(* name bound in the module, not only the API methods.                     *)
(***************************************************************************)
\* the functions decorated with @api_method_handler
ApiMethods ==
    {"puppeteer_navigate", "puppeteer_get_page_title", "puppeteer_get_current_url",
     "puppeteer_take_page_screenshot", "puppeteer_get_page_content",
     "puppeteer_click_element", "puppeteer_fill_form_field",
     "puppeteer_get_element_text", "puppeteer_execute_javascript",
     "puppeteer_create_context", "puppeteer_switch_context",
     "puppeteer_close_context", "puppeteer_get_element_attribute",
     "puppeteer_get_console_logs"}

\* the other names bound in the module: imports, globals, plain functions
\* and what every module has
OtherNames ==
    {"BrowserManager", "ConfigLoader", "api_method_handler", "RPCException",
     "BROWSER_OPERATION_ERROR", "PAGE_NOT_AVAILABLE_ERROR", "JSON_RPC_INVALID_PARAMS",
     "ELEMENT_NOT_FOUND_ERROR", "Dict", "Any", "Optional", "Union", "List",
     "base64", "os", "logging", "logger", "_browser_manager", "_config_loader",
     "initialize_routes", "_get_active_page_or_raise", "__name__", "__doc__"}

\* hasattr(routes, name)
hasattr_routes(name) == name \in ApiMethods \cup OtherNames

\* routes.py:29-37: the globals after initialize_routes(browser_manager,
\* config_loader)
initialize_routes(r, browser_manager, config_loader) ==
    [r EXCEPT !.browser_manager = browser_manager, !.config_loader = config_loader]

(***************************************************************************)
(* main.py: jsonrpc_handler.  A request body is text that is not JSON, or  *)
(* a JSON value.                                                           *)
(***************************************************************************)
NotJson == [t |-> "text", v |-> "{"]

\* line 57: request.json()
json(body) ==
    IF body.t = "text"
    THEN ExcSig(Exception("JSONDecodeError", "Expecting value"))
    ELSE RetSig(body)

\* type(x).__name__
type_name(x) ==
    CASE x.t = "null" -> "NoneType"
      [] x.t = "num" -> "int"
      [] OTHER -> x.t

\* the exception of x.name on an object without that attribute
AttributeError(x, name) ==
    Exception("AttributeError",
              "'" \o type_name(x) \o "' object has no attribute '" \o name \o "'")

InternalError(rpc_id, e) ==
    create_jsonrpc_error(rpc_id, JSON_RPC_INTERNAL_ERROR, "Server error: " \o e.msg, JNull)

\* lines 56-82: what jsonrpc_handler does with a body before it calls the
\* function it looked up: it returns a response, lets an exception escape,
\* or goes on to call routes.<name>(params, rpc_id)
dispatch(body) ==
    IF json(body).k = "exc"
    THEN RetSig(create_jsonrpc_error(JNull, JSON_RPC_PARSE_ERROR, "Parse error", JNull))
    ELSE LET request_data == json(body).v IN
    IF request_data.t # "dict"
    THEN ExcSig(AttributeError(request_data, "get"))
    ELSE LET rpc_id == DictGet(request_data, "id") IN
    IF ~IsStr(DictGet(request_data, "jsonrpc"), "2.0") \/ "method" \notin DOMAIN request_data.v
    THEN RetSig(create_jsonrpc_error(rpc_id, JSON_RPC_INVALID_REQUEST, "Invalid Request", JNull))
    ELSE LET method_name == request_data.v["method"] IN
    IF method_name.t # "str"
    THEN ExcSig(AttributeError(method_name, "replace"))
    ELSE LET api_function_name == replace(method_name.v, ".", "_") IN
    IF ~hasattr_routes(api_function_name)
    THEN RetSig(create_jsonrpc_error(rpc_id, JSON_RPC_METHOD_NOT_FOUND, "Method not found", JNull))
    ELSE LET params == get_params(request_data) IN
    IF params.k = "exc"
    THEN RetSig(to_json_response([params.e EXCEPT !.id = rpc_id]))
    ELSE [k |-> "call", name |-> api_function_name, params |-> params.v, rpc_id |-> rpc_id]

Frame_jsonrpc_handler(body) ==
    [fn |-> "jsonrpc_handler", pc |-> "start", body |-> body, rpc_id |-> JNull]

\* the frame of the wrapper around an API method (utils.py:55)
Frame_wrapper_function(params, rpc_id) ==
    [fn |-> "wrapper_function", pc |-> "in_func", params |-> params, rpc_id |-> rpc_id]

\* the frame of an API method
Frame_api(name, params, rpc_id) ==
    [fn |-> name, pc |-> "start", params |-> params, rpc_id |-> rpc_id,
     page |-> NoObj, calls |-> <<>>]

\* lines 56-73, 82, 86-90: the request is answered, or fails, before any
\* function is called
jsonrpc_handler_reject(t) ==
    /\ At(t, "jsonrpc_handler", "start")
    /\ LET d == dispatch(Top(t).body)
       IN /\ d.k # "call"
          /\ Run(t, Finish(tasks[t], d))
    /\ UNCHANGED <<mgr, drv>>

\* lines 75-84 and utils.py:55-60: the function found is an API method; its
\* wrapper calls it
jsonrpc_handler_call(t) ==
    /\ At(t, "jsonrpc_handler", "start")
    /\ LET d == dispatch(Top(t).body)
       IN /\ d.k = "call"
          /\ d.name \in ApiMethods
          /\ Run(t, [tasks[t] EXCEPT !.stack =
                 <<Frame_api(d.name, d.params, d.rpc_id),
                   Frame_wrapper_function(d.params, d.rpc_id),
                   [Top(t) EXCEPT !.pc = "in_api_function", !.rpc_id = d.rpc_id]>>])
    /\ UNCHANGED <<mgr, drv>>

\* the TypeError of calling a name of routes that is no API method with
\* (params, rpc_id), or of awaiting what the call returns
not_awaitable(name) ==
    Exception("TypeError",
              IF name = "initialize_routes"
              THEN "object NoneType can't be used in 'await' expression"
              ELSE "routes." \o name \o " cannot be called with (params, rpc_id) and awaited")

\* lines 75-84, 91-93: the name found is no API method.  initialize_routes
\* takes two arguments: it runs, with params and rpc_id as the manager and
\* the configuration, before its result fails to be awaited.
jsonrpc_handler_call_other(t) ==
    /\ At(t, "jsonrpc_handler", "start")
    /\ LET d == dispatch(Top(t).body)
       IN /\ d.k = "call"
          /\ d.name \notin ApiMethods
          /\ rt' = IF d.name = "initialize_routes"
                   THEN initialize_routes(rt, d.params, d.rpc_id)
                   ELSE rt
          /\ tasks' = [tasks EXCEPT ![t] =
                          Return(tasks[t], InternalError(d.rpc_id, not_awaitable(d.name)))]
          /\ cur' = t
    /\ UNCHANGED <<mgr, drv>>

\* utils.py:60-71 and main.py:84-85: the API method has returned or raised;
\* the wrapper makes the envelope and jsonrpc_handler responds with it
jsonrpc_handler_respond(t) ==
    /\ At(t, "wrapper_function", "in_func")
    /\ tasks[t].sig.k # "none"
    /\ LET response_dict == wrapper_function_returns(tasks[t].sig, Top(t).rpc_id)
       IN Run(t, [tasks[t] EXCEPT !.stack = <<>>, !.sig = NoSig, !.st = "done",
                                  !.out = tasks[t].sig,
                                  !.result = RetSig(response_dict)])
    /\ UNCHANGED <<mgr, drv>>

(***************************************************************************)
(* routes.py: _get_active_page_or_raise and the API methods.               *)
(***************************************************************************)
\* sub in s
Contains(s, sub) ==
    \E i \in 1..(Len(s) - Len(sub) + 1) : SubSeq(s, i, i + Len(sub) - 1) = sub

\* the routes' manager is the BrowserManager that startup made
IsManager(x) == x.t = "BrowserManager"

IsConfig(x) == x.t = "ConfigLoader"

Frame_get_active_page_or_raise ==
    [fn |-> "_get_active_page_or_raise", pc |-> "start"]

\* lines 43-57
get_active_page_or_raise_start(t) ==
    /\ At(t, "_get_active_page_or_raise", "start")
    /\ IF ~IsTrue(rt.browser_manager)
       THEN Run(t, Raise(tasks[t], RPCException(BROWSER_OPERATION_ERROR,
                            "Browser manager not initialized.", JNull, JNull)))
       ELSE IF ~IsManager(rt.browser_manager)
       THEN Run(t, Raise(tasks[t], AttributeError(rt.browser_manager, "get_active_page")))
       ELSE IF get_active_page(mgr) # NoObj
       THEN Run(t, Return(tasks[t], get_active_page(mgr)))
       ELSE Run(t, Call(tasks[t], [Top(t) EXCEPT !.pc = "in_create_page_or_raise"],
                        Frame_create_page(None, None)))
    /\ UNCHANGED <<mgr, drv>>

\* lines 59-63, 65-69: what follows create_page, or its exception
page_or_raise(r, m, outcome) ==
    LET auto(msg) == ExcSig(RPCException(PAGE_NOT_AVAILABLE_ERROR,
                        "No active page available. Auto-creation failed: " \o msg,
                        JNull, JNull))
    IN IF outcome.k = "exc"
       THEN auto(outcome.e.msg)
       ELSE IF ~IsManager(r.browser_manager)
       THEN auto(AttributeError(r.browser_manager, "get_active_page").msg)
       ELSE IF get_active_page(m) = NoObj
       THEN auto("No active page available and failed to create a new one.")
       ELSE RetSig(get_active_page(m))

\* lines 57-71
get_active_page_or_raise_created(t) ==
    /\ At(t, "_get_active_page_or_raise", "in_create_page_or_raise")
    /\ tasks[t].sig.k # "none"
    /\ Run(t, Finish(tasks[t], page_or_raise(rt, mgr, tasks[t].sig)))
    /\ UNCHANGED <<mgr, drv>>

\* an API method raises e, or goes on to get the active page
ApiStart(t, e) ==
    /\ IF e.k # "none"
       THEN Run(t, Finish(tasks[t], e))
       ELSE Run(t, Call(tasks[t], [Top(t) EXCEPT !.pc = "in_get_active_page"],
                        Frame_get_active_page_or_raise))
    /\ UNCHANGED <<mgr, drv>>

InvalidParams(message, rpc_id) ==
    ExcSig(RPCException(JSON_RPC_INVALID_PARAMS, message, rpc_id, JNull))

BrowserOperationError(message, rpc_id) ==
    ExcSig(RPCException(BROWSER_OPERATION_ERROR, message, rpc_id, JNull))

\* not x or not isinstance(x, str), for x = params.get(key)
NotAString(params, key) ==
    ~IsTrue(DictGet(params, key)) \/ DictGet(params, key).t # "str"

\* params.get(...) on params that is a list
NoGet(params) == ExcSig(AttributeError(params, "get"))

\* _config_loader.get_service_config() on what is no ConfigLoader
NoConfig(r) == ExcSig(AttributeError(r.config_loader, "get_service_config"))

\* lines 79-89
puppeteer_navigate(t) ==
    /\ At(t, "puppeteer_navigate", "start")
    /\ LET params == Top(t).params
       IN ApiStart(t,
             IF params.t # "dict" THEN NoGet(params)
             ELSE IF NotAString(params, "url")
             THEN InvalidParams("'url' parameter is required and must be a string.",
                                Top(t).rpc_id)
             ELSE IF ~IsConfig(rt.config_loader) THEN NoConfig(rt)
             ELSE NoSig)

\* line 119
puppeteer_get_page_title(t) ==
    /\ At(t, "puppeteer_get_page_title", "start")
    /\ ApiStart(t, NoSig)

\* line 139
puppeteer_get_current_url(t) ==
    /\ At(t, "puppeteer_get_current_url", "start")
    /\ ApiStart(t, NoSig)

\* line 159
puppeteer_take_page_screenshot(t) ==
    /\ At(t, "puppeteer_take_page_screenshot", "start")
    /\ ApiStart(t, NoSig)

\* line 255
puppeteer_get_page_content(t) ==
    /\ At(t, "puppeteer_get_page_content", "start")
    /\ ApiStart(t, NoSig)

\* lines 279-283, 287 (and 381-389): the checks of the methods that take a
\* selector
selector_check(params, rpc_id, r) ==
    IF params.t # "dict" THEN NoGet(params)
    ELSE IF NotAString(params, "selector")
    THEN InvalidParams("'selector' parameter is required and must be a string.", rpc_id)
    ELSE IF ~IsConfig(r.config_loader) THEN NoConfig(r)
    ELSE NoSig

\* lines 279-291
puppeteer_click_element(t) ==
    /\ At(t, "puppeteer_click_element", "start")
    /\ ApiStart(t, selector_check(Top(t).params, Top(t).rpc_id, rt))

\* lines 329-345
puppeteer_fill_form_field(t) ==
    /\ At(t, "puppeteer_fill_form_field", "start")
    /\ LET params == Top(t).params
       IN ApiStart(t,
             IF params.t # "dict" THEN NoGet(params)
             ELSE IF NotAString(params, "selector")
             THEN InvalidParams("'selector' parameter is required and must be a string.",
                                Top(t).rpc_id)
             ELSE IF DictGet(params, "value").t # "str"
             THEN InvalidParams("'value' parameter is required and must be a string.",
                                Top(t).rpc_id)
             ELSE IF ~IsConfig(rt.config_loader) THEN NoConfig(rt)
             ELSE NoSig)

\* lines 381-389
puppeteer_get_element_text(t) ==
    /\ At(t, "puppeteer_get_element_text", "start")
    /\ ApiStart(t, selector_check(Top(t).params, Top(t).rpc_id, rt))

\* lines 425-433
puppeteer_execute_javascript(t) ==
    /\ At(t, "puppeteer_execute_javascript", "start")
    /\ LET params == Top(t).params
       IN ApiStart(t,
             IF params.t # "dict" THEN NoGet(params)
             ELSE IF NotAString(params, "script")
             THEN InvalidParams("'script' parameter is required and must be a string.",
                                Top(t).rpc_id)
             ELSE NoSig)

\* lines 573-587
puppeteer_get_element_attribute(t) ==
    /\ At(t, "puppeteer_get_element_attribute", "start")
    /\ LET params == Top(t).params
       IN ApiStart(t,
             IF params.t # "dict" THEN NoGet(params)
             ELSE IF NotAString(params, "selector")
             THEN InvalidParams("'selector' parameter is required and must be a string.",
                                Top(t).rpc_id)
             ELSE IF NotAString(params, "attribute_name")
             THEN InvalidParams(
                     "'attribute_name' parameter is required and must be a string.",
                     Top(t).rpc_id)
             ELSE IF ~IsConfig(rt.config_loader) THEN NoConfig(rt)
             ELSE NoSig)

\* line 635
puppeteer_get_console_logs(t) ==
    /\ At(t, "puppeteer_get_console_logs", "start")
    /\ Run(t, Return(tasks[t], [status |-> "success", logs |-> <<>>]))
    /\ UNCHANGED <<mgr, drv>>

\* the API methods that work on the active page
PageMethods ==
    {"puppeteer_navigate", "puppeteer_get_page_title", "puppeteer_get_current_url",
     "puppeteer_take_page_screenshot", "puppeteer_get_page_content",
     "puppeteer_click_element", "puppeteer_fill_form_field",
     "puppeteer_get_element_text", "puppeteer_execute_javascript",
     "puppeteer_get_element_attribute"}

\* the driver calls a method awaits inside its try block, in order
page_calls(name) ==
    CASE name = "puppeteer_navigate" -> <<"goto">>
      [] name = "puppeteer_get_page_title" -> <<"title">>
      [] name = "puppeteer_get_current_url" -> <<>>
      [] name = "puppeteer_take_page_screenshot" -> <<"screenshot">>
      [] name = "puppeteer_get_page_content" -> <<"content">>
      [] name = "puppeteer_click_element" -> <<"wait_for_selector", "click">>
      [] name = "puppeteer_fill_form_field" -> <<"wait_for_selector", "fill">>
      [] name = "puppeteer_get_element_text" -> <<"wait_for_selector", "text_content">>
      [] name = "puppeteer_execute_javascript" -> <<"evaluate">>
      [] name = "puppeteer_get_element_attribute" -> <<"wait_for_selector", "get_attribute">>

\* the methods that pass float(timeout) to their first driver call
TimedMethods ==
    {"puppeteer_navigate", "puppeteer_click_element", "puppeteer_fill_form_field",
     "puppeteer_get_element_text", "puppeteer_get_element_attribute"}

\* config_loader.py:52: the default_timeout of the service configuration
default_timeout == JNum("30000")

\* float(timeout) raises
NotAFloat(params) == GetOr(params, "timeout", default_timeout).t # "num"

\* Page.url
page_url(page) == JStr("url of page " \o ToString(page))

\* base64.b64encode(image_bytes).decode("utf-8")
b64encode(bytes) == JStr("base64 of " \o bytes.v)

\* what a method returns after its last driver call returned v
result_of(name, params, page, v) ==
    CASE name = "puppeteer_navigate" ->
            [status |-> "success", url |-> page_url(page), http_status |-> v]
      [] name = "puppeteer_get_page_title" -> [status |-> "success", title |-> v]
      [] name = "puppeteer_get_current_url" -> [status |-> "success", url |-> page_url(page)]
      [] name = "puppeteer_take_page_screenshot" ->
            IF IsTrue(DictGet(params, "path"))
            THEN [status |-> "success", file_path |-> DictGet(params, "path")]
            ELSE [status |-> "success", image_base64 |-> b64encode(v)]
      [] name = "puppeteer_get_page_content" -> [status |-> "success", content |-> v]
      [] name = "puppeteer_click_element" -> [status |-> "success"]
      [] name = "puppeteer_fill_form_field" -> [status |-> "success"]
      [] name = "puppeteer_get_element_text" -> [status |-> "success", text |-> v]
      [] name = "puppeteer_execute_javascript" -> [status |-> "success", result |-> v]
      [] name = "puppeteer_get_element_attribute" -> [status |-> "success", value |-> v]

\* lines 317, 369, 413, 611
LooksNotFound(e) == Contains(e.msg, "Target closed") \/ Contains(e.msg, "Timeout")

\* the RPCException an except block of a method makes of exception e
error_of(name, params, rpc_id, e) ==
    LET selector == "(selector: " \o DictGet(params, "selector").v \o "): "
        browser(prefix) == RPCException(BROWSER_OPERATION_ERROR, prefix \o e.msg, rpc_id, JNull)
        element(found, other) ==
            IF LooksNotFound(e)
            THEN RPCException(ELEMENT_NOT_FOUND_ERROR, found \o selector \o e.msg, rpc_id, JNull)
            ELSE RPCException(BROWSER_OPERATION_ERROR, other \o selector \o e.msg, rpc_id, JNull)
    IN CASE name = "puppeteer_navigate" -> browser("Navigation failed: ")
         [] name = "puppeteer_get_page_title" -> browser("Failed to get page title: ")
         [] name = "puppeteer_get_current_url" -> browser("Failed to get current URL: ")
         [] name = "puppeteer_take_page_screenshot" -> browser("Screenshot failed: ")
         [] name = "puppeteer_get_page_content" -> browser("Failed to get page content: ")
         [] name = "puppeteer_click_element" ->
               element("Failed to click element ", "Failed to click element ")
         [] name = "puppeteer_fill_form_field" ->
               element("Failed to fill field ", "Failed to fill form field ")
         [] name = "puppeteer_get_element_text" ->
               element("Failed to get text ", "Failed to get text from element ")
         [] name = "puppeteer_execute_javascript" -> browser("JavaScript execution failed: ")
         [] name = "puppeteer_get_element_attribute" ->
               element("Failed to get attribute ", "Failed to get attribute from element ")

\* lines 163-219: the checks take_page_screenshot makes once it has the page
screenshot_check(params, rpc_id) ==
    LET path == DictGet(params, "path")
        type == GetOr(params, "type", JStr("png"))
        quality == DictGet(params, "quality")
    IN IF params.t # "dict" THEN NoGet(params)
       ELSE IF IsTrue(path) /\ path.t # "str"
       THEN InvalidParams("'path' parameter must be a string if provided.", rpc_id)
       ELSE IF ~(type.t = "str" /\ type.v \in {"png", "jpeg"})
       THEN InvalidParams("'type' parameter must be 'png' or 'jpeg'.", rpc_id)
       ELSE IF /\ IsStr(type, "jpeg")
               /\ ~IsNone(quality)
               /\ ~(quality.t = "num" /\ quality.v \in {ToString(n) : n \in 0..100})
       THEN InvalidParams("'quality' must be an integer between 0 and 100 for jpeg.", rpc_id)
       ELSE NoSig

\* the method has its page (routes.py:93, 119, 139, 159, 255, 295, 347, 391,
\* 437, 589) and enters its try block: it makes its first driver call, or
\* returns at once when it makes none
api_page(t) ==
    /\ Runnable(t)
    /\ Top(t).fn \in PageMethods
    /\ Top(t).pc = "in_get_active_page"
    /\ tasks[t].sig.k = "ret"
    /\ LET name == Top(t).fn
           params == Top(t).params
           page == tasks[t].sig.v
           check == IF name = "puppeteer_take_page_screenshot"
                    THEN screenshot_check(params, Top(t).rpc_id)
                    ELSE NoSig
       IN IF check.k # "none"
          THEN Run(t, Finish(tasks[t], check))
          ELSE IF page_calls(name) = <<>>
          THEN Run(t, Return(tasks[t], result_of(name, params, page, JNull)))
          ELSE IF name \in TimedMethods /\ NotAFloat(params)
          THEN Run(t, Raise(tasks[t], error_of(name, params, Top(t).rpc_id,
                      Exception("ValueError", "could not convert string to float"))))
          ELSE Yield(t, Goto(tasks[t], [Top(t) EXCEPT !.pc = "await_page_call",
                                                      !.page = page,
                                                      !.calls = page_calls(name)]))
    /\ UNCHANGED <<mgr, drv>>

\* lines 303-305, 355-357, 399-401, 597-599: the exception a method raises,
\* inside its try block, when wait_for_selector returned no element
no_element(params, rpc_id) ==
    RPCException(ELEMENT_NOT_FOUND_ERROR,
                 "Element with selector '" \o DictGet(params, "selector").v \o "' not found.",
                 rpc_id, JNull)

\* a driver call of the method completed: the next call, the return of the
\* result, or the except block of the method (which also catches the
\* exception the method raises when wait_for_selector returned no element)
api_called(t) ==
    /\ Runnable(t)
    /\ Top(t).fn \in PageMethods
    /\ Top(t).pc = "await_page_call"
    /\ LET name == Top(t).fn
       IN IF tasks[t].sig.k = "exc"
          THEN Run(t, Raise(tasks[t],
                            error_of(name, Top(t).params, Top(t).rpc_id, tasks[t].sig.e)))
          ELSE IF Head(Top(t).calls) = "wait_for_selector" /\ ~IsTrue(tasks[t].sig.v)
          THEN Run(t, Raise(tasks[t],
                            error_of(name, Top(t).params, Top(t).rpc_id,
                                     no_element(Top(t).params, Top(t).rpc_id))))
          ELSE IF Len(Top(t).calls) > 1
          THEN Yield(t, Goto(tasks[t], [Top(t) EXCEPT !.calls = Tail(@)]))
          ELSE Run(t, Return(tasks[t],
                             result_of(name, Top(t).params, Top(t).page, tasks[t].sig.v)))
    /\ UNCHANGED <<mgr, drv>>

\* what the driver says of a call on a page that is closed (the wording
\* depends on the driver's version), and how a call on a live page may fail
ClosedMessages == {"Target closed", "Target page, context or browser has been closed"}
FailureMessages == {"Timeout 30000ms exceeded.", "net::ERR_FAILED"}

\* what a driver call on a page returns
returned(pagecall) == IF pagecall = "goto" THEN JNum("200") ELSE JStr(pagecall)

\* Page.goto, title, content, screenshot, wait_for_selector, evaluate and the
\* calls on an element of the page.  wait_for_selector returns an element,
\* returns None (its result is Optional) or raises
page_call(t) ==
    /\ Awaiting(t, "await_page_call")
    /\ \/ /\ ~drv.pages[Top(t).page].closed
          /\ Complete(t, RetSig(returned(Head(Top(t).calls))))
       \/ /\ ~drv.pages[Top(t).page].closed
          /\ Head(Top(t).calls) = "wait_for_selector"
          /\ Complete(t, RetSig(JNull))
       \/ \E msg \in IF drv.pages[Top(t).page].closed
                     THEN ClosedMessages
                     ELSE FailureMessages :
             Complete(t, ExcSig(Exception("Error", msg)))
    /\ UNCHANGED <<mgr, drv>>

\* lines 471-483
puppeteer_create_context(t) ==
    /\ At(t, "puppeteer_create_context", "start")
    /\ LET params == Top(t).params
           rpc_id == Top(t).rpc_id
       IN IF ~IsTrue(rt.browser_manager)
          THEN Run(t, Finish(tasks[t],
                      BrowserOperationError("Browser manager not initialized.", rpc_id)))
          ELSE IF params.t # "dict"
          THEN Run(t, Finish(tasks[t], NoGet(params)))
          ELSE IF GetOr(params, "context_options", EmptyDict).t # "dict"
          THEN Run(t, Finish(tasks[t],
                      InvalidParams("'context_options' must be an object.", rpc_id)))
          ELSE IF ~IsManager(rt.browser_manager)
          THEN Run(t, Finish(tasks[t], BrowserOperationError(
                      "Failed to create context: "
                         \o AttributeError(rt.browser_manager, "create_context").msg, rpc_id)))
          ELSE Run(t, Call(tasks[t], [Top(t) EXCEPT !.pc = "in_create_context_api"],
                           Frame_create_context(None)))
    /\ UNCHANGED <<mgr, drv>>

\* lines 483-493
puppeteer_create_context_created(t) ==
    /\ At(t, "puppeteer_create_context", "in_create_context_api")
    /\ IF tasks[t].sig.k = "ret"
       THEN Run(t, Return(tasks[t], [status |-> "success",
                                     context_id |-> JStr(tasks[t].sig.v)]))
       ELSE Run(t, Finish(tasks[t], BrowserOperationError(
                   "Failed to create context: " \o tasks[t].sig.e.msg, Top(t).rpc_id)))
    /\ UNCHANGED <<mgr, drv>>

\* lines 501-505, 537-541
context_id_check(params, rpc_id) ==
    IF params.t # "dict" THEN NoGet(params)
    ELSE IF NotAString(params, "context_id")
    THEN InvalidParams("'context_id' parameter is required and must be a string.", rpc_id)
    ELSE NoSig

\* lines 501-529
puppeteer_switch_context(t) ==
    /\ At(t, "puppeteer_switch_context", "start")
    /\ LET params == Top(t).params
           rpc_id == Top(t).rpc_id
           context_id == DictGet(params, "context_id").v
           out == set_active_context(mgr, context_id)
       IN IF context_id_check(params, rpc_id).k # "none"
          THEN Run(t, Finish(tasks[t], context_id_check(params, rpc_id))) /\ UNCHANGED mgr
          ELSE IF ~IsTrue(rt.browser_manager)
          THEN /\ Run(t, Finish(tasks[t],
                         BrowserOperationError("Browser manager not initialized.", rpc_id)))
               /\ UNCHANGED mgr
          ELSE IF ~IsManager(rt.browser_manager)
          THEN /\ Run(t, Finish(tasks[t], BrowserOperationError(
                         "Failed to switch context: "
                            \o AttributeError(rt.browser_manager, "set_active_context").msg,
                         rpc_id)))
               /\ UNCHANGED mgr
          ELSE IF out.r
          THEN /\ mgr' = out.m
               /\ Run(t, Return(tasks[t],
                         [status |-> "success",
                          active_context_id |-> out.m.active_context_id,
                          active_page_id |-> out.m.active_page_id]))
          ELSE /\ Run(t, Finish(tasks[t], BrowserOperationError(
                         "Failed to switch context: Failed to switch to context ID '"
                            \o context_id \o "'. Context not found.", rpc_id)))
               /\ UNCHANGED mgr
    /\ UNCHANGED drv

\* lines 537-549
puppeteer_close_context(t) ==
    /\ At(t, "puppeteer_close_context", "start")
    /\ LET params == Top(t).params
           rpc_id == Top(t).rpc_id
       IN IF context_id_check(params, rpc_id).k # "none"
          THEN Run(t, Finish(tasks[t], context_id_check(params, rpc_id)))
          ELSE IF ~IsTrue(rt.browser_manager)
          THEN Run(t, Finish(tasks[t],
                      BrowserOperationError("Browser manager not initialized.", rpc_id)))
          ELSE IF ~IsManager(rt.browser_manager)
          THEN Run(t, Finish(tasks[t], BrowserOperationError(
                      "Failed to close context: "
                         \o AttributeError(rt.browser_manager, "close_context").msg, rpc_id)))
          ELSE Run(t, Call(tasks[t], [Top(t) EXCEPT !.pc = "in_close_context_api"],
                           Frame_close_context(DictGet(params, "context_id").v)))
    /\ UNCHANGED <<mgr, drv>>

\* lines 549-565
puppeteer_close_context_closed(t) ==
    /\ At(t, "puppeteer_close_context", "in_close_context_api")
    /\ LET context_id == DictGet(Top(t).params, "context_id").v
       IN IF tasks[t].sig.k = "exc"
          THEN Run(t, Finish(tasks[t], BrowserOperationError(
                      "Failed to close context: " \o tasks[t].sig.e.msg, Top(t).rpc_id)))
          ELSE IF tasks[t].sig.v
          THEN Run(t, Return(tasks[t], [status |-> "success",
                                        closed_context_id |-> JStr(context_id)]))
          ELSE Run(t, Finish(tasks[t], BrowserOperationError(
                      "Failed to close context: Failed to close context ID '" \o context_id
                         \o "'. Context not found or already closed.", Top(t).rpc_id)))
    /\ UNCHANGED <<mgr, drv>>

(***************************************************************************)
(* main.py: startup_event and shutdown_event.                              *)
(***************************************************************************)
Frame_startup_event == [fn |-> "startup_event", pc |-> "start"]

\* lines 28-36: ConfigLoader() raises when the configuration file is missing
\* or invalid, and the except of line 39 swallows it; else the globals of
\* main are bound, to a new BrowserManager, and the browser is started
startup_event_start(t) ==
    /\ At(t, "startup_event", "start")
    /\ \/ /\ tasks' = [tasks EXCEPT ![t] = Return(tasks[t], None)]
          /\ cur' = t
          /\ rt' = [rt EXCEPT !.phase = "serving"]
          /\ UNCHANGED mgr
       \/ /\ tasks' = [tasks EXCEPT ![t] =
                          Call(tasks[t], [Top(t) EXCEPT !.pc = "in_start_browser"],
                               Frame_start_browser)]
          /\ cur' = t
          /\ rt' = [rt EXCEPT !.main_config_loader = Instance("ConfigLoader"),
                              !.main_browser_manager = Instance("BrowserManager")]
          /\ mgr' = BrowserManager
    /\ UNCHANGED drv

\* lines 36-41: the routes get the manager and the configuration when
\* start_browser returned; its exception is logged and the service serves
\* without them
startup_event_started(t) ==
    /\ At(t, "startup_event", "in_start_browser")
    /\ tasks[t].sig.k # "none"
    /\ tasks' = [tasks EXCEPT ![t] = Return(tasks[t], None)]
    /\ cur' = t
    /\ rt' = [(IF tasks[t].sig.k = "ret"
               THEN initialize_routes(rt, rt.main_browser_manager, rt.main_config_loader)
               ELSE rt) EXCEPT !.phase = "serving"]
    /\ UNCHANGED <<mgr, drv>>

\* the NameError of reading a global that was never bound
NameError(name) == Exception("NameError", "name '" \o name \o "' is not defined")

\* main.py lines 95-101, health_check: its response, or the NameError of
\* reading main.browser_manager when startup never bound it
health_check ==
    IF rt.main_browser_manager.t = "unbound"
    THEN ExcSig(NameError("browser_manager"))
    ELSE IF mgr.browser # NoObj /\ is_connected(mgr.browser)
    THEN RetSig([status |-> "ok", browser_status |-> "connected"])
    ELSE IF mgr.browser # NoObj
    THEN RetSig([status |-> "degraded", browser_status |-> "disconnected"])
    ELSE RetSig([status |-> "error", browser_status |-> "unavailable_or_failed_to_start"])

Frame_shutdown_event == [fn |-> "shutdown_event", pc |-> "start"]

\* lines 47-50
shutdown_event_start(t) ==
    /\ At(t, "shutdown_event", "start")
    /\ IF rt.main_browser_manager.t = "unbound"
       THEN Run(t, Raise(tasks[t], NameError("browser_manager")))
       ELSE Run(t, Call(tasks[t], [Top(t) EXCEPT !.pc = "in_close_browser"],
                        Frame_close_browser))
    /\ UNCHANGED <<mgr, drv>>

\* lines 50-51
shutdown_event_closed(t) ==
    /\ At(t, "shutdown_event", "in_close_browser")
    /\ tasks[t].sig.k = "ret"
    /\ Run(t, Return(tasks[t], None))
    /\ UNCHANGED <<mgr, drv>>

(***************************************************************************)
(* The service: it starts, serves the requests of two clients, whose       *)
(* handlers interleave at their awaits, and shuts down.                    *)
(***************************************************************************)
Server == "t2"

\* the ids the two clients give their requests
IdOf(t) == IF t = Caller THEN JNum("1") ELSE JNum("2")

\* a request object
request(id, method, params) ==
    JDict([jsonrpc |-> JStr("2.0"), method |-> JStr(method), params |-> params, id |-> id])

\* a request object without params
request_no_params(id, method) ==
    JDict([jsonrpc |-> JStr("2.0"), method |-> JStr(method), id |-> id])

\* a notification: a request object without id
notification(method) == JDict([jsonrpc |-> JStr("2.0"), method |-> JStr(method)])

params_of(f) == JDict(f)

\* bodies that are no request object, or a broken one
Malformed(id) ==
    <<NotJson, JList, JStr("ping"), JNum("7"), JNull, EmptyDict,
      JDict([jsonrpc |-> JStr("1.0"), method |-> JStr("puppeteer.get_page_title"), id |-> id]),
      JDict([jsonrpc |-> JStr("2.0"), id |-> id]),
      JDict([jsonrpc |-> JStr("2.0"), method |-> JNum("7"), id |-> id]),
      JDict([jsonrpc |-> JStr("2.0"), method |-> JNull, id |-> id])>>

\* names that are no API method; all but the first are bound in routes
\* once '.' is replaced by '_'
UnregisteredMethods == <<"foo.bar", "initialize.routes", "_get_active_page_or_raise", "os">>

\* the API methods as the clients name them
MethodNames ==
    <<"puppeteer.navigate", "puppeteer.get_page_title", "puppeteer.get_current_url",
      "puppeteer.take_page_screenshot", "puppeteer.get_page_content",
      "puppeteer.click_element", "puppeteer.fill_form_field",
      "puppeteer.get_element_text", "puppeteer.execute_javascript",
      "puppeteer.create_context", "puppeteer.switch_context",
      "puppeteer.close_context", "puppeteer.get_element_attribute",
      "puppeteer_get_console_logs">>

\* the context ids a client may name: the tracked ones and one of its own
ContextIdParams(ids) == [i \in 1..Len(ids) |-> params_of([context_id |-> JStr(ids[i])])]

\* the params a client sends with a method
ParamsFor(method) ==
    CASE method = "puppeteer.navigate" ->
            <<EmptyDict, params_of([url |-> JStr("http://a")]), params_of([url |-> JNum("7")]),
              JList, JStr("bad")>>
      [] method = "puppeteer.get_page_title" ->
            <<EmptyDict, JList, JStr("bad")>>
      [] method = "puppeteer.take_page_screenshot" ->
            <<EmptyDict, params_of([type |-> JStr("gif")]),
              params_of([type |-> JStr("jpeg"), quality |-> JNum("101")])>>
      [] method = "puppeteer.click_element" ->
            <<EmptyDict, params_of([selector |-> JStr("#a")]), JList>>
      [] method = "puppeteer.get_element_text" ->
            <<EmptyDict, params_of([selector |-> JStr("#a")])>>
      [] method = "puppeteer.fill_form_field" ->
            <<params_of([selector |-> JStr("#a")]),
              params_of([selector |-> JStr("text=Timeout"), value |-> JStr("")])>>
      [] method = "puppeteer.execute_javascript" ->
            <<EmptyDict, params_of([script |-> JStr("1")])>>
      [] method = "puppeteer.get_element_attribute" ->
            <<params_of([selector |-> JStr("#a")]),
              params_of([selector |-> JStr("#a"), attribute_name |-> JStr("href")])>>
      [] method = "puppeteer.create_context" ->
            <<EmptyDict, params_of([context_options |-> JStr("x")])>>
      [] method \in {"puppeteer.switch_context", "puppeteer.close_context"} ->
            <<EmptyDict>> \o ContextIdParams(KeyList(mgr.contexts) \o <<"ctx_a">>)
      [] method \in {"foo.bar", "os"} ->
            <<EmptyDict, JList, JStr("bad")>>
      [] method = "initialize.routes" ->
            <<EmptyDict, params_of([url |-> JStr("http://a")]), JStr("bad")>>
      [] OTHER -> <<EmptyDict>>

\* the requests for a method, one for each of its params
Requests(id, method) ==
    [i \in 1..Len(ParamsFor(method)) |-> request(id, method, ParamsFor(method)[i])]

RECURSIVE Flatten(_)
Flatten(ss) == IF Len(ss) = 0 THEN <<>> ELSE Head(ss) \o Flatten(Tail(ss))

\* the bodies the first client sends
Bodies(id) ==
    Malformed(id)
      \o Flatten([j \in 1..Len(MethodNames) |-> Requests(id, MethodNames[j])])
      \o Flatten([j \in 1..Len(UnregisteredMethods) |-> Requests(id, UnregisteredMethods[j])])
      \o <<request_no_params(id, "puppeteer_get_console_logs"),
           request_no_params(id, "initialize_routes"),
           request(JNull, "puppeteer_get_console_logs", EmptyDict),
           request(JStr("a"), "puppeteer_get_console_logs", EmptyDict),
           request(JNum("0"), "puppeteer_get_console_logs", EmptyDict),
           request(EmptyDict, "puppeteer_get_console_logs", EmptyDict),
           notification("puppeteer_get_console_logs"),
           notification("foo.bar")>>

\* the methods of the first client that a request of the second overlaps
Overlapped ==
    {"puppeteer.get_page_title", "puppeteer.click_element", "puppeteer.close_context"}

\* the bodies the second client sends, while a request of the first is in
\* progress
OtherBodies(id) ==
    IF tasks[Caller].stack = <<>> \/ tasks[Caller].op.body.v.method.v \notin Overlapped
    THEN <<>>
    ELSE <<request_no_params(id, "puppeteer.get_page_title")>>
            \o [i \in 1..Len(mgr.contexts) |->
                  request(id, "puppeteer.close_context",
                          params_of([context_id |-> JStr(mgr.contexts[i].k)]))]

\* the bodies client t sends: the first client sends its next request once
\* both have their responses
BodiesOf(t) ==
    IF t # Caller THEN OtherBodies(IdOf(t))
    ELSE IF \A u \in Tasks : tasks[u].st = "idle" THEN Bodies(IdOf(t))
    ELSE <<>>

RequestOp(body) == [name |-> "jsonrpc_handler", body |-> body]

\* the application starts
Startup(t) ==
    /\ rt.phase = "new"
    /\ Begin(t, [name |-> "startup_event"], Frame_startup_event)
    /\ UNCHANGED <<mgr, drv>>

\* POST /jsonrpc
Request(t) ==
    /\ rt.phase = "serving"
    /\ cur = NoTask
    /\ tasks[t].st = "idle"
    /\ LET bodies == BodiesOf(t)
       IN \E i \in 1..Len(bodies) :
             tasks' = [tasks EXCEPT ![t] =
                         [st |-> "active", stack |-> <<Frame_jsonrpc_handler(bodies[i])>>,
                          sig |-> NoSig, op |-> RequestOp(bodies[i]), pre |-> NoPre,
                          out |-> NoSig, result |-> NoSig]]
    /\ cur' = t
    /\ UNCHANGED <<mgr, drv, rt>>

\* the application stops, once the requests in progress are answered
Shutdown(t) ==
    /\ rt.phase = "serving"
    /\ cur = NoTask
    /\ \A u \in Tasks : tasks[u].st = "idle"
    /\ tasks' = [tasks EXCEPT ![t] =
                   [st |-> "active", stack |-> <<Frame_shutdown_event>>, sig |-> NoSig,
                    op |-> [name |-> "shutdown_event"], pre |-> NoPre,
                    out |-> NoSig, result |-> NoSig]]
    /\ cur' = t
    /\ rt' = [rt EXCEPT !.phase = "stopped"]
    /\ UNCHANGED <<mgr, drv>>

\* GET /health: the handler has no await, it answers in one stretch
HealthCheck(t) ==
    /\ rt.phase = "serving"
    /\ cur = NoTask
    /\ tasks[t].st = "idle"
    /\ tasks' = [tasks EXCEPT ![t] =
                   [st |-> "done", stack |-> <<>>, sig |-> NoSig,
                    op |-> [name |-> "health_check"], pre |-> NoPre,
                    out |-> NoSig, result |-> health_check]]
    /\ cur' = t
    /\ UNCHANGED <<mgr, drv, rt>>

\* one stretch of the dispatcher, the wrapper or an API method
RpcStep(t) ==
    \/ jsonrpc_handler_reject(t)
    \/ jsonrpc_handler_call(t)
    \/ jsonrpc_handler_call_other(t)
    \/ jsonrpc_handler_respond(t)
    \/ get_active_page_or_raise_start(t)
    \/ get_active_page_or_raise_created(t)
    \/ puppeteer_navigate(t)
    \/ puppeteer_get_page_title(t)
    \/ puppeteer_get_current_url(t)
    \/ puppeteer_take_page_screenshot(t)
    \/ puppeteer_get_page_content(t)
    \/ puppeteer_click_element(t)
    \/ puppeteer_fill_form_field(t)
    \/ puppeteer_get_element_text(t)
    \/ puppeteer_execute_javascript(t)
    \/ puppeteer_get_element_attribute(t)
    \/ puppeteer_get_console_logs(t)
    \/ api_page(t)
    \/ api_called(t)
    \/ puppeteer_create_context(t)
    \/ puppeteer_create_context_created(t)
    \/ puppeteer_switch_context(t)
    \/ puppeteer_close_context(t)
    \/ puppeteer_close_context_closed(t)
    \/ page_call(t)

\* one stretch of startup, of shutdown, or of the BrowserManager coroutines
\* they and the API methods call.  The browser of the service stays
\* connected from its launch to the shutdown, so that start_browser has no
\* failure to clean up and create_context finds the browser running.
ServiceStep(t) ==
    \/ startup_event_start(t)
    \/ startup_event_started(t)
    \/ shutdown_event_start(t)
    \/ shutdown_event_closed(t)
    \/ start_browser_start(t)
    \/ start_browser_launch(t)
    \/ start_browser_launched(t)
    \/ start_browser_return(t)
    \/ create_context_start(t)
    \/ create_context_created(t)
    \/ create_context_return(t)
    \/ create_page_start(t)
    \/ create_page_context_created(t)
    \/ create_page_created(t)
    \/ close_page_start(t)
    \/ close_page_closed(t)
    \/ close_context_start(t)
    \/ close_context_close_pages(t)
    \/ close_context_closed(t)
    \/ close_browser_start(t)
    \/ close_browser_closed(t)
    \/ close_browser_stopped(t)
    \/ Propagate(t)
    \/ DriverStep(t)

NextRpc ==
    \/ Startup(Server)
    \/ Shutdown(Server)
    \/ HealthCheck(Server)
    \/ \E t \in Tasks :
          \/ Request(t)
          \/ RpcStep(t)
          \/ ServiceStep(t)
          \/ Collect(t)

SpecRpc == Init /\ [][NextRpc]_vars

(***************************************************************************)
(* Properties of the dispatcher under SpecRpc.  A finished request is      *)
(* visible in its task record: the body (op.body), the outcome of the API  *)
(* method it reached (out) and the response, or the exception that left    *)
(* jsonrpc_handler (result).                                               *)
(***************************************************************************)
\* task t has finished a request
Answered(t) == tasks[t].st = "done" /\ tasks[t].op.name = "jsonrpc_handler"

\* jsonrpc_handler returned a response
Responded(t) == Answered(t) /\ tasks[t].result.k = "ret"

\* x == y for the values the requests carry
SameValue(x, y) ==
    /\ x.t = y.t
    /\ IF x.t = "dict" THEN DOMAIN x.v = DOMAIN y.v ELSE x.v = y.v

IsEnvelope(x) ==
    /\ {"jsonrpc", "id"} \subseteq DOMAIN x
    /\ x.jsonrpc = "2.0"
    /\ ("result" \in DOMAIN x) # ("error" \in DOMAIN x)

\* x is the error envelope with this code
IsError(x, code) == "error" \in DOMAIN x /\ x.error.code = code

\* the body is an object that names its method with a string
NamesMethod(body) ==
    /\ body.t = "dict"
    /\ "method" \in DOMAIN body.v
    /\ body.v["method"].t = "str"

\* the body has the protocol tag and a method
GoodEnvelope(body) ==
    /\ body.t = "dict"
    /\ IsStr(DictGet(body, "jsonrpc"), "2.0")
    /\ "method" \in DOMAIN body.v

\* params, if present, is an object or a list
GoodParams(body) == DictGet(body, "params").t \in {"null", "dict", "list"}

\* the method of the body is an API method
Registered(body) == replace(body.v["method"].v, ".", "_") \in ApiMethods

\* C6: for every request body, jsonrpc_handler returns an envelope; no
\* exception leaves it.
C6_DispatcherNeverRaises ==
    Answered(Caller) => Responded(Caller) /\ IsEnvelope(call.result.v)

\* C7: the checks come in the order parse, envelope, params, method: a
\* request object that fails the envelope check is answered InvalidRequest,
\* and one that passes it with params neither object nor list is answered
\* InvalidParams, whether its method is registered or not.
C7_ParamsCheckedBeforeMethod ==
    Answered(Caller) /\ NamesMethod(call.op.body) =>
       /\ ~GoodEnvelope(call.op.body) =>
             Responded(Caller) /\ IsError(call.result.v, JSON_RPC_INVALID_REQUEST)
       /\ GoodEnvelope(call.op.body) /\ ~GoodParams(call.op.body) =>
             Responded(Caller) /\ IsError(call.result.v, JSON_RPC_INVALID_PARAMS)

\* the routes' references to the manager and the configuration are the same
SameRoutes(a, b) ==
    /\ SameValue(a.browser_manager, b.browser_manager)
    /\ SameValue(a.config_loader, b.config_loader)

\* the step that ends a well-formed request of the first client for a method
\* that is no API method
AnswersUnregistered ==
    /\ call.st = "active"
    /\ call.op.name = "jsonrpc_handler"
    /\ tasks'[Caller].st = "done"
    /\ NamesMethod(call.op.body)
    /\ GoodEnvelope(call.op.body)
    /\ GoodParams(call.op.body)
    /\ ~Registered(call.op.body)

\* C8: a request for a method that is no API method is answered
\* MethodNotFound, and answering it changes neither the registry nor the
\* routes' references to the manager and the configuration.
C8_UnregisteredIsMethodNotFound ==
    [][AnswersUnregistered =>
          /\ tasks'[Caller].result.k = "ret"
          /\ IsError(tasks'[Caller].result.v, JSON_RPC_METHOD_NOT_FOUND)
          /\ mgr' = mgr
          /\ SameRoutes(rt', rt)]_vars

\* the response to the body carries the body's id, and is null only for a
\* body that is no JSON or has no id
EchoesId(body, response) ==
    /\ body.t = "dict" => SameValue(response.id, DictGet(body, "id"))
    /\ IsNone(response.id) =>
          body.t = "text" \/ (body.t = "dict" /\ IsNone(DictGet(body, "id")))

\* C9: every response to a request carries that request's own id, whatever
\* other request is in progress, and its id is null only when the body was
\* no JSON or carried no id.
C9_ResponseEchoesId ==
    \A t \in Tasks :
       Responded(t) => EchoesId(tasks[t].op.body, tasks[t].result.v)

\* the first client is answered with the id of its request for an
\* RPCException that was raised without id, while a request of the second
\* client, with another id, is in progress
C9_Witness ==
    /\ Responded(Caller)
    /\ call.out.k = "exc"
    /\ call.out.e.type = "RPCException"
    /\ IsNone(call.out.e.id)
    /\ SameValue(call.result.v.id, JNum("1"))
    /\ tasks[Server].st = "active"
    /\ tasks[Server].op.name = "jsonrpc_handler"
    /\ SameValue(DictGet(tasks[Server].op.body, "id"), JNum("2"))

\* outcomes of an API method: a value, an RPCException without and with id
\* and data, and another exception
Outcomes ==
    <<RetSig([status |-> "success"]),
      ExcSig(RPCException(BROWSER_OPERATION_ERROR, "failed", JNull, JNull)),
      ExcSig(RPCException(JSON_RPC_INVALID_PARAMS, "invalid", JNum("1"), JStr("detail"))),
      ExcSig(Exception("AttributeError", "no attribute"))>>

\* the envelope is the one the outcome calls for
MapsOutcome(outcome, envelope) ==
    /\ IsEnvelope(envelope)
    /\ outcome.k = "ret" =>
          "result" \in DOMAIN envelope /\ envelope.result = outcome.v
    /\ outcome.k = "exc" /\ outcome.e.type = "RPCException" =>
          /\ IsError(envelope, outcome.e.code)
          /\ envelope.error.message = outcome.e.msg
          /\ IF IsNone(outcome.e.data)
             THEN "data" \notin DOMAIN envelope.error
             ELSE /\ "data" \in DOMAIN envelope.error
                  /\ SameValue(envelope.error.data, outcome.e.data)
    /\ outcome.k = "exc" /\ outcome.e.type # "RPCException" =>
          IsError(envelope, JSON_RPC_INTERNAL_ERROR)

\* C10: the wrapper maps the outcome of the API method to one envelope: a
\* value to a success envelope with that result, an RPCException to an error
\* envelope with its code, message and data, any other exception to an
\* InternalError envelope; the envelope has exactly one of result and error.
C10_WrapperMapsOutcome ==
    /\ \A i \in 1..Len(Outcomes) :
          MapsOutcome(Outcomes[i], wrapper_function_returns(Outcomes[i], JNum("1")))
    /\ \A t \in Tasks :
          tasks[t].st = "done" /\ tasks[t].out.k # "none" =>
             tasks[t].result.k = "ret" /\ MapsOutcome(tasks[t].out, tasks[t].result.v)

\* an API method let an exception that is no RPCException out, and the
\* request was answered
C10_Witness ==
    /\ Responded(Caller)
    /\ call.out.k = "exc"
    /\ call.out.e.type # "RPCException"
    /\ IsError(call.result.v, JSON_RPC_INTERNAL_ERROR)

\* the body is a well-formed request for this API method
RequestFor(body, name) ==
    /\ NamesMethod(body)
    /\ GoodEnvelope(body)
    /\ GoodParams(body)
    /\ replace(body.v["method"].v, ".", "_") = name

\* the params of the body hold this key
HasParam(body, key) ==
    /\ DictGet(body, "params").t = "dict"
    /\ key \in DOMAIN DictGet(body, "params").v

\* C11: a click_element request whose params are an object, a list or
\* absent, and hold no selector, is answered with an InvalidParams envelope
\* that carries the id of the request.
C11_ClickWithoutSelector ==
    /\ Answered(Caller)
    /\ RequestFor(call.op.body, "puppeteer_click_element")
    /\ ~HasParam(call.op.body, "selector")
    => /\ Responded(Caller)
       /\ IsError(call.result.v, JSON_RPC_INVALID_PARAMS)
       /\ SameValue(call.result.v.id, DictGet(call.op.body, "id"))

\* the first client's request is a close_context that names this context id
ClosesContext(t, context_id) ==
    /\ tasks[t].op.name = "jsonrpc_handler"
    /\ RequestFor(tasks[t].op.body, "puppeteer_close_context")
    /\ HasParam(tasks[t].op.body, "context_id")
    /\ IsStr(tasks[t].op.body.v["params"].v["context_id"], context_id)

\* a context id that no request creates
NeverCreated == "ctx_a"

\* C12: once the routes hold the browser manager, a close_context request
\* that names a context id that was never created is answered with a success envelope, not an error envelope, and
\* no step of the request changes the registry.
C12_CloseUnknownContext ==
    [][/\ ClosesContext(Caller, NeverCreated)
       /\ call.st = "active"
       /\ IsManager(rt.browser_manager)
       => /\ tasks'[Caller].st = "done" =>
                /\ tasks'[Caller].result.k = "ret"
                /\ "result" \in DOMAIN tasks'[Caller].result.v
          /\ tasks[Server].st = "idle" /\ tasks'[Server].st = "idle" => mgr' = mgr]_vars

\* no field of the registry m holds anything
EmptyRegistry(m) ==
    /\ m.playwright = NoObj
    /\ m.browser = NoObj
    /\ m.contexts = <<>>
    /\ m.pages = <<>>
    /\ m.active_context_id = None
    /\ m.active_page_id = None

\* a browser process runs at driver d
BrowserRuns(d) == \E b \in DOMAIN d.browsers : d.browsers[b].connected

\* C13: when StartBrowser has raised, no browser process runs and the
\* registry holds no driver handle, no browser handle, no context, no page
\* and no active selection.
C13_FailedStartLeavesNothing ==
    Done("start_browser") /\ call.result.k = "exc"
    => ~BrowserRuns(drv) /\ EmptyRegistry(mgr)

\* the registry m is as CloseBrowser is said to leave it
Closed(m) ==
    /\ m.contexts = <<>>
    /\ m.pages = <<>>
    /\ m.active_context_id = None
    /\ m.active_page_id = None
    /\ m.browser = NoObj

\* C14: when CloseBrowser has finished, by returning or by raising, the
\* context map and the page map are empty, both active ids are unset and the
\* browser handle is released; and a CloseBrowser on a registry in that state
\* changes nothing.
C14_CloseBrowserClears ==
    Done("close_browser")
    => /\ Closed(mgr)
       /\ Closed(call.pre.mgr) => mgr = call.pre.mgr

\* CloseBrowser has completed on registry m at driver d, and nothing was
\* started since: a driver was started, and the registry holds neither a
\* driver handle nor a browser handle (close_browser, line 208, is the only
\* code that sets playwright back to None)
BrowserClosed(m, d) ==
    /\ Len(d.playwrights) > 0
    /\ m.playwright = NoObj
    /\ m.browser = NoObj

\* C15: once CloseBrowser has completed, no later StartBrowser, CreateContext
\* or CreatePage brings the browser of the registry back to running: when
\* such a call, made on a closed registry, has finished, no browser of the
\* registry runs.
C15_ClosedIsTerminal ==
    /\ call.st = "done"
    /\ call.op.name \in {"start_browser", "create_context", "create_page"}
    /\ BrowserClosed(call.pre.mgr, call.pre.drv)
    => ~Running(mgr, drv)

\* the three answers of the health query
HealthAnswers ==
    {[status |-> "ok", browser_status |-> "connected"],
     [status |-> "degraded", browser_status |-> "disconnected"],
     [status |-> "error", browser_status |-> "unavailable_or_failed_to_start"]}

\* C16: a health query returns one of the three answers, and it returns
\* ok and connected exactly when the registry holds a browser handle whose
\* browser is connected.
C16_HealthReportsBrowser ==
    tasks[Server].st = "done" /\ tasks[Server].op.name = "health_check"
    => /\ tasks[Server].result.k = "ret"
       /\ tasks[Server].result.v \in HealthAnswers
       /\ tasks[Server].result.v.status = "ok" <=> Running(mgr, drv)

\* the API method of t's request failed because its driver call found the
\* page closed
FoundPageClosed(t) ==
    /\ Answered(t)
    /\ tasks[t].out.k = "exc"
    /\ \E msg \in ClosedMessages : Contains(tasks[t].out.e.msg, msg)

\* C17: when the page an action handler obtained is closed by another request
\* before the handler's driver call runs, the response is the
\* PageNotAvailable error envelope.
C17_ClosedPageIsPageNotAvailable ==
    FoundPageClosed(Caller)
    => Responded(Caller) /\ IsError(call.result.v, PAGE_NOT_AVAILABLE_ERROR)

(***************************************************************************)
(* SpecConcurrent: the registry driven by two callers that create contexts *)
(* and pages without naming them; the first also closes the browser.  A    *)
(* call starts when the event loop is free, so the calls of the second     *)
(* caller start while a call of the first is suspended in a driver call.   *)
(***************************************************************************)
\* the first caller makes its next call when both have their outcomes, the
\* second makes its calls while a call of the first is in progress
MayCall(t) ==
    /\ cur = NoTask
    /\ tasks[t].st = "idle"
    /\ IF t = Caller THEN \A u \in Tasks : tasks[u].st = "idle"
       ELSE tasks[Caller].st = "active"

\* task t starts running the coroutine with frame f
Enter(t, op, f) ==
    /\ MayCall(t)
    /\ tasks' = [tasks EXCEPT ![t] =
                   [st |-> "active", stack |-> <<f>>, sig |-> NoSig, op |-> op,
                    pre |-> NoPre, out |-> NoSig, result |-> NoSig]]
    /\ cur' = t
    /\ UNCHANGED <<mgr, drv, rt>>

CallCreateContext(t) == Enter(t, Op("create_context", None, None), Frame_create_context(None))

CallCreatePage(t) == Enter(t, Op("create_page", None, None), Frame_create_page(None, None))

CallCloseBrowser(t) == Enter(t, Op("close_browser", None, None), Frame_close_browser)

\* one stretch of the coroutines these calls run, or the completion of a
\* driver call they await
ConcurrentStep(t) ==
    \/ start_browser_start(t)
    \/ start_browser_launch(t)
    \/ start_browser_launched(t)
    \/ start_browser_return(t)
    \/ start_browser_except(t)
    \/ start_browser_reraise(t)
    \/ create_context_start(t)
    \/ create_context_started(t)
    \/ create_context_created(t)
    \/ create_context_return(t)
    \/ create_page_start(t)
    \/ create_page_context_created(t)
    \/ create_page_created(t)
    \/ close_browser_start(t)
    \/ close_browser_closed(t)
    \/ close_browser_stopped(t)
    \/ Propagate(t)
    \/ playwright_start(t)
    \/ launch(t)
    \/ browser_new_context(t)
    \/ context_new_page(t)
    \/ browser_close(t)
    \/ playwright_stop(t)

NextConcurrent ==
    \/ CallCreateContext(Caller)
    \/ CallCreatePage(Caller)
    \/ CallCloseBrowser(Caller)
    \/ CallCreateContext(Server)
    \/ CallCreatePage(Server)
    \/ \E t \in Tasks :
          \/ ConcurrentStep(t)
          \/ Collect(t)

SpecConcurrent == Init /\ [][NextConcurrent]_vars

\* the ids of map d' that a step from map d stored or stored anew, and that
\* start with prefix
Stored(d, dnew, prefix) ==
    {k \in Keys(dnew) : /\ StartsWith(k, prefix)
                        /\ Has(d, k) => Get(dnew, k) # Get(d, k)}

\* a step that stores ids with the prefix stores one id, which carries the
\* number of the counter the step has increased, and which the map did not
\* hold
StoresFresh(d, dnew, prefix, counter, counternew) ==
    /\ counternew >= counter
    /\ \A k \in Stored(d, dnew, prefix) :
          /\ counternew > counter
          /\ k = prefix \o ToString(counternew)
          /\ ~Has(d, k)

Mutators ==
    {"start_browser", "create_context", "create_page", "close_page", "close_context",
     "close_browser"}

\* task t is suspended in a driver call that a registry operation awaits
SuspendedInMutation(t) ==
    /\ tasks[t].st = "active"
    /\ cur # t
    /\ Top(t).fn \in Mutators

\* C19: while a registry operation of one caller is suspended in a driver
\* call, no operation of the other caller changes the registry: a step that
\* leaves the suspended task as it is leaves the registry as it is.
C19_MutationsExclusive ==
    [][\A t \in Tasks :
          SuspendedInMutation(t) /\ tasks'[t] = tasks[t] => mgr' = mgr]_vars

\* the browsers the driver has launched that are running
RunningBrowsers(d) == {b \in DOMAIN d.browsers : d.browsers[b].connected}

\* the launch of browser b has completed and the start_browser that awaits
\* it has not run yet: line 42 is about to store b
Handed(b) ==
    \E t \in Tasks :
       /\ tasks[t].stack # <<>>
       /\ Top(t).fn = "start_browser"
       /\ Top(t).pc = "await_launch"
       /\ tasks[t].sig.k = "ret"
       /\ tasks[t].sig.v = b

\* C32: in every interleaving of calls that start the browser, at most one
\* launched browser runs at a time, and every browser that runs is the one
\* the registry holds or is about to store: no launched browser is dropped
\* while it runs.
C32_SingleBrowser ==
    /\ Cardinality(RunningBrowsers(drv)) <= 1
    /\ \A b \in RunningBrowsers(drv) : mgr.browser = b \/ Handed(b)

(***************************************************************************)
(* SpecCloseRace: the registry driven by a caller that starts the browser, *)
(* creates contexts and closes them, and a second caller that creates      *)
(* pages in tracked contexts.  Each makes its next call when the event     *)
(* loop is free and its last call was collected, so a call of one starts   *)
(* while a call of the other is suspended in a driver call.                *)
(***************************************************************************)
\* create_page(context_id=C) for a tracked context C
CreatePageIn(t) ==
    /\ \E context_id \in Keys(mgr.contexts) :
          Begin(t, Op("create_page", context_id, None), Frame_create_page(context_id, None))
    /\ UNCHANGED <<mgr, drv>>

\* one stretch of the coroutines these calls run, or the completion of a
\* driver call they await
CloseRaceStep(t) ==
    \/ start_browser_start(t)
    \/ start_browser_launch(t)
    \/ start_browser_launched(t)
    \/ start_browser_return(t)
    \/ create_context_start(t)
    \/ create_context_started(t)
    \/ create_context_created(t)
    \/ create_context_return(t)
    \/ create_page_start(t)
    \/ create_page_created(t)
    \/ close_page_start(t)
    \/ close_page_closed(t)
    \/ close_context_start(t)
    \/ close_context_close_pages(t)
    \/ close_context_closed(t)
    \/ Propagate(t)
    \/ playwright_start(t)
    \/ launch(t)
    \/ browser_new_context(t)
    \/ context_new_page(t)
    \/ page_close(t)
    \/ context_close(t)

NextCloseRace ==
    \/ StartBrowser(Caller)
    \/ CreateContext(Caller)
    \/ CloseContext(Caller)
    \/ CreatePageIn(Server)
    \/ \E t \in Tasks :
          \/ CloseRaceStep(t)
          \/ Collect(t)

SpecCloseRace == Init /\ [][NextCloseRace]_vars

\* the context object that the call of task t named when it was made
Named(t) == Get(tasks[t].pre.mgr.contexts, tasks[t].op.context_id)

\* no page that context object c owns is tracked, and none is the active page
NoPageOf(c) ==
    /\ \A i \in 1..Len(mgr.pages) : context_of(mgr.pages[i].v) # c
    /\ get_active_page(mgr) = NoObj \/ context_of(get_active_page(mgr)) # c

\* CloseContext(C) has returned and no other call is in progress
CloseFinishedLast ==
    /\ Quiescent
    /\ tasks[Caller].st = "done"
    /\ tasks[Caller].op.name = "close_context"
    /\ Has(tasks[Caller].pre.mgr.contexts, tasks[Caller].op.context_id)
    /\ tasks[Caller].result.k = "ret"

\* CreatePage targeting C has returned, no other call is in progress, and C,
\* which was tracked when CreatePage was called, has been closed since
CreateFinishedLast ==
    /\ Quiescent
    /\ tasks[Server].st = "done"
    /\ tasks[Server].op.name = "create_page"
    /\ tasks[Server].result.k = "ret"
    /\ \A i \in 1..Len(mgr.contexts) : mgr.contexts[i].v # Named(Server)

\* C31: in every interleaving of CloseContext(C) with a CreatePage that
\* targets C, once both calls have finished no page that C owns is tracked
\* and none is the active page.
C31_ClosedContextKeepsNoPage ==
    /\ CloseFinishedLast => NoPageOf(Named(Caller))
    /\ CreateFinishedLast => NoPageOf(Named(Server))

(***************************************************************************)
(* SpecRpcFair: the service under the scheduling of the event loop, which  *)
(* runs every ready task in turn, and under the assumption that a driver   *)
(* call that can complete does: a step of a task that is enabled again and *)
(* again is taken.  The clients need not send requests; the bodies they    *)
(* send are JSON objects whose id is a number and whose params, if they    *)
(* have any, are an object.                                                *)
(***************************************************************************)
ObjectRequest(body) ==
    /\ body.t = "dict"
    /\ "id" \in DOMAIN body.v => body.v["id"].t = "num"
    /\ "params" \in DOMAIN body.v => body.v["params"].t = "dict"

\* POST /jsonrpc with such a body
Submit(t) ==
    /\ rt.phase = "serving"
    /\ cur = NoTask
    /\ tasks[t].st = "idle"
    /\ LET bodies == SelectSeq(BodiesOf(t), ObjectRequest)
       IN \E i \in 1..Len(bodies) :
             tasks' = [tasks EXCEPT ![t] =
                         [st |-> "active", stack |-> <<Frame_jsonrpc_handler(bodies[i])>>,
                          sig |-> NoSig, op |-> RequestOp(bodies[i]), pre |-> NoPre,
                          out |-> NoSig, result |-> NoSig]]
    /\ cur' = t
    /\ UNCHANGED <<mgr, drv, rt>>

TaskStep(t) == RpcStep(t) \/ ServiceStep(t) \/ Collect(t)

NextRpcFair ==
    \/ Startup(Server)
    \/ Shutdown(Server)
    \/ HealthCheck(Server)
    \/ \E t \in Tasks :
          \/ Submit(t)
          \/ TaskStep(t)

SpecRpcFair ==
    /\ Init
    /\ [][NextRpcFair]_vars
    /\ \A t \in Tasks : SF_vars(TaskStep(t))

\* the request of task t is in progress
Dispatched(t) == tasks[t].st = "active" /\ tasks[t].op.name = "jsonrpc_handler"

\* the request of task t has its response, a well-formed envelope
Enveloped(t) == Responded(t) /\ IsEnvelope(tasks[t].result.v)

\* task t is suspended in a driver call that never returns: the creation of
\* a context or a page that the driver has no room for
NeverReturns(t) ==
    /\ tasks[t].stack # <<>>
    /\ tasks[t].sig.k = "none"
    /\ \/ Top(t).pc = "await_new_context" /\ Len(drv.contexts) >= MaxContexts
       \/ Top(t).pc = "await_new_page" /\ Len(drv.pages) >= MaxPages

\* C20: every request that is dispatched eventually has its response, a
\* well-formed envelope, unless a driver call it awaits never returns.
C20_EveryRequestAnswered ==
    \A t \in Tasks : [](Dispatched(t) => <>(Enveloped(t) \/ NeverReturns(t)))

(***************************************************************************)
(* SpecRpcFrom: the service as in SpecRpc, where the task record of a      *)
(* request of the first client also holds the state the request arrived   *)
(* in (pre), so that what the request changed is visible when it is        *)
(* answered.                                                               *)
(***************************************************************************)
\* POST /jsonrpc of the first client
Arrive(t) ==
    /\ rt.phase = "serving"
    /\ cur = NoTask
    /\ tasks[t].st = "idle"
    /\ LET bodies == BodiesOf(t)
       IN \E i \in 1..Len(bodies) :
             tasks' = [tasks EXCEPT ![t] =
                         [st |-> "active", stack |-> <<Frame_jsonrpc_handler(bodies[i])>>,
                          sig |-> NoSig, op |-> RequestOp(bodies[i]),
                          pre |-> [mgr |-> mgr, drv |-> drv, rt |-> rt],
                          out |-> NoSig, result |-> NoSig]]
    /\ cur' = t
    /\ UNCHANGED <<mgr, drv, rt>>

NextRpcFrom ==
    \/ Startup(Server)
    \/ Shutdown(Server)
    \/ HealthCheck(Server)
    \/ Arrive(Caller)
    \/ Request(Server)
    \/ \E t \in Tasks :
          \/ RpcStep(t)
          \/ ServiceStep(t)
          \/ Collect(t)

SpecRpcFrom == Init /\ [][NextRpcFrom]_vars

\* the codes of ParseError, InvalidRequest, MethodNotFound and InvalidParams
ProtocolErrors ==
    {JSON_RPC_PARSE_ERROR, JSON_RPC_INVALID_REQUEST,
     JSON_RPC_METHOD_NOT_FOUND, JSON_RPC_INVALID_PARAMS}

\* the request of task t is answered with a protocol-level error
AnsweredProtocolError(t) ==
    /\ Responded(t)
    /\ IsEnvelope(tasks[t].result.v)
    /\ "error" \in DOMAIN tasks[t].result.v
    /\ tasks[t].result.v.error.code \in ProtocolErrors

\* no request of the other client runs while this body is served
ServedAlone(body) ==
    ~(NamesMethod(body) /\ body.v["method"].v \in Overlapped)

\* C21: a request answered with ParseError, InvalidRequest, MethodNotFound
\* or InvalidParams leaves the registry as it was when the request arrived,
\* and the driver too: no context or page is created, no selection or
\* counter changes, no driver call is made.
C21_ProtocolErrorsLeaveRegistry ==
    AnsweredProtocolError(Caller) /\ ServedAlone(call.op.body) =>
       /\ mgr = call.pre.mgr
       /\ drv = call.pre.drv

(***************************************************************************)
(* Properties of the registry operations under Spec, continued.            *)
(***************************************************************************)
\* the page ids that the finished call added to the page map
AddedPages == Keys(mgr.pages) \ Keys(call.pre.mgr.pages)

\* C22: a CreateContext call that returns has added exactly one context to
\* the registry, the one whose id it returns, and exactly one page, which
\* that context owns; this holds whether the browser was running or the
\* call had to start it.
C22_CreateContextAddsOne ==
    Returned("create_context") =>
       /\ call.result.v \notin Keys(call.pre.mgr.contexts)
       /\ Keys(mgr.contexts) = Keys(call.pre.mgr.contexts) \cup {call.result.v}
       /\ Keys(call.pre.mgr.pages) \subseteq Keys(mgr.pages)
       /\ Cardinality(AddedPages) = 1
       /\ \A page_id \in AddedPages :
             context_of(Get(mgr.pages, page_id)) = Get(mgr.contexts, call.result.v)

\* the ids of the tracked pages of m that the context tracked as context_id
\* owns
PageIdsOwnedBy(m, context_id) ==
    {m.pages[i].k : i \in {j \in 1..Len(m.pages) :
                              context_of(m.pages[j].v) = Get(m.contexts, context_id)}}

\* SetActiveContext(C) has succeeded
SetActiveContextSucceeded ==
    Returned("set_active_context") /\ call.result.v = TRUE

\* C23: after a successful SetActiveContext(C), active_context_id is C, and
\* active_page_id is a tracked page that C owns if one is tracked and is
\* unset otherwise; it does not stay at a page of the context that was
\* active before.
C23_SetActiveContextResolvesPage ==
    SetActiveContextSucceeded =>
       /\ mgr.active_context_id = call.op.context_id
       /\ IF PageIdsOwnedBy(mgr, call.op.context_id) # {}
          THEN mgr.active_page_id \in PageIdsOwnedBy(mgr, call.op.context_id)
          ELSE mgr.active_page_id = None

\* SetActiveContext(C) succeeded on a context that owns no tracked page while
\* the active page was a tracked page of another context
C23_Witness ==
    /\ SetActiveContextSucceeded
    /\ PageIdsOwnedBy(mgr, call.op.context_id) = {}
    /\ Has(call.pre.mgr.pages, call.pre.mgr.active_page_id)
    /\ call.pre.mgr.active_context_id # call.op.context_id

\* C24: after a successful SetActivePage(P), active_page_id is P and
\* active_context_id names the tracked context that owns P.
C24_SetActivePageSelectsOwner ==
    Returned("set_active_page") /\ call.result.v = TRUE =>
       /\ mgr.active_page_id = call.op.page_id
       /\ Has(mgr.contexts, mgr.active_context_id)
       /\ Get(mgr.contexts, mgr.active_context_id)
             = context_of(Get(mgr.pages, call.op.page_id))

\* ClosePage(P) has completed: it closed a tracked page and returned
ClosePageCompleted ==
    /\ Returned("close_page")
    /\ call.result.v = TRUE
    /\ Has(call.pre.mgr.pages, call.op.page_id)

\* C25: after ClosePage(P) completes where P was the active page,
\* active_page_id names a still-tracked page other than P if a page remains
\* tracked, and is unset otherwise; after ClosePage(P) completes where P was
\* not the active page, active_page_id and active_context_id are as before.
C25_ClosePageReselects ==
    ClosePageCompleted =>
       IF call.pre.mgr.active_page_id = call.op.page_id
       THEN IF mgr.pages # <<>>
            THEN /\ Has(mgr.pages, mgr.active_page_id)
                 /\ mgr.active_page_id # call.op.page_id
            ELSE mgr.active_page_id = None
       ELSE /\ mgr.active_page_id = call.pre.mgr.active_page_id
            /\ mgr.active_context_id = call.pre.mgr.active_context_id

\* ClosePage completed on the active page while another page was tracked
C25_Witness ==
    /\ ClosePageCompleted
    /\ call.pre.mgr.active_page_id = call.op.page_id
    /\ mgr.pages # <<>>

\* CloseContext(C) has completed on the context that was active
ActiveContextClosed ==
    /\ Returned("close_context")
    /\ call.result.v = TRUE
    /\ Has(call.pre.mgr.contexts, call.op.context_id)
    /\ call.pre.mgr.active_context_id = call.op.context_id

\* C26: after CloseContext(C) completes where C was the active context: if a
\* context remains tracked, active_context_id names a tracked context and
\* active_page_id is unset or a tracked page that this context owns; if no
\* context remains, active_context_id and active_page_id are both unset.
C26_CloseContextReselects ==
    ActiveContextClosed =>
       IF mgr.contexts # <<>>
       THEN /\ Has(mgr.contexts, mgr.active_context_id)
            /\ \/ mgr.active_page_id = None
               \/ mgr.active_page_id \in PageIdsOwnedBy(mgr, mgr.active_context_id)
       ELSE /\ mgr.active_context_id = None
            /\ mgr.active_page_id = None

\* the finished call named an identifier that was not tracked
UntrackedId ==
    \/ /\ call.st = "done"
       /\ call.op.name \in {"set_active_context", "close_context"}
       /\ ~Has(call.pre.mgr.contexts, call.op.context_id)
    \/ /\ call.st = "done"
       /\ call.op.name \in {"set_active_page", "close_page"}
       /\ ~Has(call.pre.mgr.pages, call.op.page_id)

\* C27: SetActiveContext, SetActivePage, ClosePage and CloseContext called
\* with an identifier that is not tracked return false, raise nothing, make
\* no driver call and leave the context map, the page map, both active
\* pointers and both counters as they were.
C27_UntrackedIdChangesNothing ==
    UntrackedId =>
       /\ call.result.k = "ret"
       /\ call.result.v = FALSE
       /\ mgr = call.pre.mgr
       /\ drv = call.pre.drv

\* SetActiveContext was called with an untracked id while a context and an
\* active page were tracked
C27_Witness ==
    /\ Done("set_active_context")
    /\ UntrackedId
    /\ call.pre.mgr.contexts # <<>>
    /\ Has(call.pre.mgr.pages, call.pre.mgr.active_page_id)

\* C29: whenever no registry operation is in progress, also after an
\* operation that ended because a driver call raised, active_context_id is
\* unset or names a tracked context, and active_page_id is unset or names a
\* tracked page.
C29_ActivePointersTracked ==
    Quiescent =>
       /\ mgr.active_context_id = None \/ Has(mgr.contexts, mgr.active_context_id)
       /\ mgr.active_page_id = None \/ Has(mgr.pages, mgr.active_page_id)

\* C30: whenever no registry operation is in progress, every tracked page is
\* owned by a tracked context.
C30_NoOrphanedPages ==
    Quiescent =>
       \A i \in 1..Len(mgr.pages) :
          \E j \in 1..Len(mgr.contexts) :
             context_of(mgr.pages[i].v) = mgr.contexts[j].v

(***************************************************************************)
(* The selector-based methods under SpecRpc.                               *)
(***************************************************************************)
SelectorMethods ==
    {"puppeteer_click_element", "puppeteer_fill_form_field",
     "puppeteer_get_element_text", "puppeteer_get_element_attribute"}

\* the selector wait of the request of task t has yielded no element: the
\* driver's wait_for_selector returned None, or it raised its timeout
NoElement(t) ==
    /\ tasks[t].stack # <<>>
    /\ Top(t).fn \in SelectorMethods
    /\ Top(t).pc = "await_page_call"
    /\ Head(Top(t).calls) = "wait_for_selector"
    /\ \/ tasks[t].sig.k = "ret" /\ IsNone(tasks[t].sig.v)
       \/ tasks[t].sig.k = "exc" /\ Contains(tasks[t].sig.e.msg, "Timeout")

\* C28: in click_element, fill_form_field, get_element_text and
\* get_element_attribute, when the selector wait has yielded no element the
\* method ends with ElementNotFoundError (-32002), whatever the text of the
\* selector, never with BrowserOperationError (the wrapper makes the
\* response of the error the method ends with).
C28_NoElementIsElementNotFound ==
    [][\A t \in Tasks :
          NoElement(t) /\ tasks'[t] # tasks[t] =>
             /\ tasks'[t].sig.k = "exc"
             /\ tasks'[t].sig.e.code = ELEMENT_NOT_FOUND_ERROR]_vars

====
